---------------------------- MODULE Spec2Model ----------------------------
(***************************************************************************)
(* A model of pyndfd (src/pyndfd/ndfd.py): the forecast-cycle clock, the   *)
(* cycle-keyed on-disk cache (get_variable, get_elevation_variable) and    *)
(* the point analysis (get_forecast_analysis).                             *)
(*                                                                         *)
(* Strings are sequences of atoms (short strings); "/" is path.sep.  A     *)
(* path string is resolved by the file system into its components, the    *)
(* maximal runs of non-separator atoms, so that string concatenation       *)
(* without a separator ("tmp" + "2018-...") yields ONE component.          *)
(***************************************************************************)
EXTENDS Integers, Sequences, FiniteSets, TLC

VARIABLES
    clock,                      \* datetime.datetime.utcnow(), the wall clock
    ticks,                      \* number of clock advances so far (bounded)
    glft,                       \* one get_latest_forecast_time call in steps
    NDFD_TMP,                   \* ndfd.py:72, the cache root string
    NDFD_LOCAL_SERVER,          \* ndfd.py:66
    NDFD_LOCAL_SERVER_IS_DIR,   \* ndfd.py:67
    dirs,                       \* directories on disk (resolved paths)
    files,                      \* regular files on disk: resolved path -> content
    call,                       \* the last cache call and what it did
    fa,                         \* the last get_forecast_analysis call
    procs,                      \* the processes racing in get_variable
    pf                          \* a call of a function of its arguments only

vars == <<clock, ticks, glft, NDFD_TMP, NDFD_LOCAL_SERVER,
          NDFD_LOCAL_SERVER_IS_DIR, dirs, files, call, fa, procs, pf>>

-----------------------------------------------------------------------------
(* Bounds of the model *)

MaxDay == 2            \* wall-clock days 1..MaxDay (day 1 is 2018-01-01)
MaxClockDrift == 2     \* minutes the clock may advance between two utcnow()
MaxTicks == 2          \* clock advances in the cache specification

-----------------------------------------------------------------------------
(* datetime *)

CACHE_SERVER_BUFFER_MIN == 20

\* Python's None, where a string is expected
None == <<>>

\* datetime.datetime: ord counts days, ord 1 = 2018-01-01, ord 0 = 2017-12-31
DateTime(o, h, m, s, us) ==
    [ord |-> o, hour |-> h, minute |-> m, second |-> s, microsecond |-> us]

\* t + datetime.timedelta(minutes=k), 0 <= k
AddMinutes(t, k) ==
    LET total == (t.ord * 24 + t.hour) * 60 + t.minute + k
    IN  [t EXCEPT !.ord = total \div 1440,
                  !.hour = (total % 1440) \div 60,
                  !.minute = total % 60]

\* t - datetime.timedelta(hours=1)
MinusOneHour(t) ==
    IF t.hour = 0 THEN [t EXCEPT !.ord = t.ord - 1, !.hour = 23]
                  ELSE [t EXCEPT !.hour = t.hour - 1]

\* t.replace(minute=0, second=0, microsecond=0)
TruncateToHour(t) == [t EXCEPT !.minute = 0, !.second = 0, !.microsecond = 0]

\* ndfd.py:157, the minute-of-hour is inside the freshness buffer
InBufferStrict(t) == t.minute < CACHE_SERVER_BUFFER_MIN

InBuffer(t) == t.minute <= CACHE_SERVER_BUFFER_MIN

\* get_latest_forecast_time, with the two values its two utcnow() calls give
LatestForecastTime(first, second) ==
    IF InBuffer(first)
    THEN TruncateToHour(MinusOneHour(second))
    ELSE TruncateToHour(first)

\* the same, for a caller during whose call the clock does not advance
get_latest_forecast_time == LatestForecastTime(clock, clock)

-----------------------------------------------------------------------------
(* strings and paths *)

SEP == "/"

Digit(i) == <<"0", "1", "2", "3", "4", "5", "6", "7", "8", "9">>[i + 1]

TwoDigits(k) == <<Digit((k \div 10) % 10), Digit(k % 10)>>

FourDigits(k) ==
    <<Digit((k \div 1000) % 10), Digit((k \div 100) % 10)>> \o TwoDigits(k % 100)

\* the calendar date of a day number (the days around 2018-01-01)
Ymd(o) ==
    IF o <= 0 THEN [year |-> 2017, month |-> 12, day |-> 31 + o]
              ELSE [year |-> 2018, month |-> 1, day |-> o]

\* t.strftime("%Y-%m-%d-%H")
StrfTime(t) ==
    FourDigits(Ymd(t.ord).year) \o <<"-">> \o TwoDigits(Ymd(t.ord).month)
        \o <<"-">> \o TwoDigits(Ymd(t.ord).day) \o <<"-">> \o TwoDigits(t.hour)

\* NDFD_DIR.format(area, vp), NDFD_STATIC.format(area), NDFD_VAR.format(var)
NDFD_DIR(area, vp) == <<"DC.ndfd", SEP, "AR.", area, SEP, "VP.", vp, SEP>>

NDFD_STATIC(area) == <<"static", SEP, "DC.ndfd", SEP, "AR.", area, SEP>>

NDFD_VAR(var) == <<"ds.", var, ".bin">>

NDFD_REMOTE_SERVER == <<"http://tgftp.nws.noaa.gov", SEP, "DF.gr2", SEP>>

\* os.path.join(a, b) for a relative b: a separator is added unless a ends
\* with one (or is empty)
PathJoin(a, b) ==
    IF a = <<>> \/ a[Len(a)] = SEP THEN a \o b ELSE a \o <<SEP>> \o b

\* How the file system reads a path string: the sequence of its components,
\* each component the run of atoms between two separators
Resolve(s) ==
    LET RECURSIVE R(_, _, _)
        R(i, cur, acc) ==
            IF i > Len(s)
            THEN IF cur = <<>> THEN acc ELSE Append(acc, cur)
            ELSE IF s[i] = SEP
                 THEN R(i + 1, <<>>, IF cur = <<>> THEN acc ELSE Append(acc, cur))
                 ELSE R(i + 1, Append(cur, s[i]), acc)
    IN  R(1, <<>>, <<>>)

IsPrefix(p, q) == Len(p) <= Len(q) /\ SubSeq(q, 1, Len(p)) = p

-----------------------------------------------------------------------------
(* the file system: D a set of resolved directory paths, F a set of files   *)
(* [path, content]                                                          *)

\* os.path.isdir, os.path.isfile
isdir(D, s) == Resolve(s) \in D

isfile(F, s) == \E f \in F : f.path = Resolve(s)

\* os.makedirs: the directory and every missing ancestor
makedirs(D, s) ==
    D \cup {SubSeq(Resolve(s), 1, k) : k \in 1..Len(Resolve(s))}

\* shutil.rmtree(s): raises when s is no directory, else removes the tree
rmtree_raises(D, s) == Resolve(s) \notin D

rmtree_dirs(D, s) == {d \in D : ~IsPrefix(Resolve(s), d)}

rmtree_files(F, s) == {f \in F : ~IsPrefix(Resolve(s), f.path)}

\* request.urlretrieve(remote_var, local_var) when it writes the file: the
\* source serves the data of the cycle now current
urlretrieve(F, remote_var, local_var, now) ==
    {f \in F : f.path # Resolve(local_var)}
        \cup {[path |-> Resolve(local_var), at |-> now]}

-----------------------------------------------------------------------------
(* the region table, DEFS["vars"]: per region its sub-resolution groups, in *)
(* the order the dictionary yields them, each with its variables            *)

DEFS_vars ==
    [conus    |-> <<[vp |-> "004-007", vars |-> {"apt"}],
                    [vp |-> "001-003", vars |-> {"apt", "maxt"}],
                    [vp |-> "008-450", vars |-> {"maxt"}]>>,
     neast    |-> <<[vp |-> "001-003", vars |-> {"apt"}]>>,
     puertori |-> <<[vp |-> "001-003", vars |-> {"maxt"}]>>]

\* DEFS["grids"]: the centre of each region, in the order of the dictionary
DEFS_grids ==
    <<[area |-> "conus", lonC |-> 4, latC |-> 2],
      [area |-> "puertori", lonC |-> 9, latC |-> 0],
      [area |-> "neast", lonC |-> 6, latC |-> 3]>>

\* the arguments the calls are made with
Vars == {"apt"}

Areas == {"conus", "puertori", "wrong"}

\* gettempdir() + path.sep + str(getuser()) + "_pyndfd" + path.sep
NDFD_TMP_DEFAULT == <<"tmp", SEP, "user", "_pyndfd", SEP>>

\* the folders set_tmp_folder is called with: the same folder, written with
\* and without a trailing separator
Roots == {<<"cache", SEP>>, <<"cache">>}

Servers == {<<"srv">>}

-----------------------------------------------------------------------------
(* get_variable *)

NoCall ==
    [op |-> "none", var |-> "", area |-> "", status |-> "ok", msg |-> "",
     result |-> <<>>, fetched |-> <<>>, cycle |-> <<>>, dir_time |-> <<>>,
     had_dir |-> FALSE]

\* ndfd.py:193-201, the source a cycle file is fetched from
RemoteVar(var_name) ==
    IF NDFD_LOCAL_SERVER # None
    THEN PathJoin((IF NDFD_LOCAL_SERVER_IS_DIR THEN <<"File:">> ELSE <<>>)
                      \o NDFD_LOCAL_SERVER, var_name)
    ELSE NDFD_REMOTE_SERVER \o var_name

\* ndfd.py:192, the file is fetched only when it is not there
NeedsFetchAlways(F, local_var) == TRUE

NeedsFetch(F, local_var) == ~isfile(F, local_var)

\* ndfd.py:202, the check after the fetch attempt
StillMissingIgnored(F, local_var) == FALSE

StillMissing(F, local_var) == ~isfile(F, local_var)

\* ndfd.py:177-182: a missing cycle directory discards the tree of the root
\* (an exception of rmtree is swallowed) and is created
RotateDirsNoCreate(D, dir_time) ==
    IF isdir(D, dir_time) \/ rmtree_raises(D, NDFD_TMP) THEN D
    ELSE rmtree_dirs(D, NDFD_TMP)

RotateDirs(D, dir_time) ==
    IF isdir(D, dir_time) THEN D
    ELSE makedirs(IF rmtree_raises(D, NDFD_TMP) THEN D
                  ELSE rmtree_dirs(D, NDFD_TMP), dir_time)

RotateFiles(D, F, dir_time) ==
    IF isdir(D, dir_time) \/ rmtree_raises(D, NDFD_TMP) THEN F
    ELSE rmtree_files(F, NDFD_TMP)

\* ndfd.py:184-207, the loop over the groups of the region from group k on;
\* wrote[k] tells whether the fetch for group k writes the file
RECURSIVE GetVariableLoop(_, _, _, _, _)
GetVariableLoop(var, area, wrote, k, st) ==
    IF k > Len(DEFS_vars[area]) \/ st.status # "ok" THEN st
    ELSE IF var \notin DEFS_vars[area][k].vars
    THEN GetVariableLoop(var, area, wrote, k + 1, st)
    ELSE
      LET var_dir    == NDFD_DIR(area, DEFS_vars[area][k].vp)
          var_name   == var_dir \o NDFD_VAR(var)
          local_dir  == st.dir_time \o var_dir
          local_var  == st.dir_time \o var_name
          D1         == IF ~isdir(st.dirs, local_dir)
                        THEN makedirs(st.dirs, local_dir) ELSE st.dirs
          fetch      == NeedsFetch(st.files, local_var)
          remote_var == RemoteVar(var_name)
          F1         == IF fetch /\ wrote[k]
                        THEN urlretrieve(st.files, remote_var, local_var, st.cycle)
                        ELSE st.files
          fetched1   == IF fetch
                        THEN Append(st.fetched,
                                    [remote |-> remote_var, local |-> local_var,
                                     wrote |-> wrote[k]])
                        ELSE st.fetched
      IN  IF StillMissing(F1, local_var)
          THEN [st EXCEPT !.dirs = D1, !.files = F1, !.fetched = fetched1,
                          !.status = "RuntimeError",
                          !.msg = "Cannot retrieve NDFD variables at this time"]
          ELSE GetVariableLoop(var, area, wrote, k + 1,
                   [st EXCEPT !.dirs = D1, !.files = F1, !.fetched = fetched1,
                              !.result = Append(@, local_var)])

\* ndfd.py:162-211
get_variable(D, F, var, area, wrote) ==
    LET cycle    == StrfTime(get_latest_forecast_time)
        dir_time == NDFD_TMP \o cycle \o <<SEP>>
        st0      == [dirs |-> RotateDirs(D, dir_time),
                     files |-> RotateFiles(D, F, dir_time),
                     status |-> "ok", msg |-> "", result |-> <<>>,
                     fetched |-> <<>>, cycle |-> cycle, dir_time |-> dir_time,
                     had_dir |-> isdir(D, dir_time)]
    IN  IF area \in DOMAIN DEFS_vars
        THEN GetVariableLoop(var, area, wrote, 1, st0)
        ELSE [st0 EXCEPT !.status = "ValueError", !.msg = "Invalid Area"]

\* ndfd.py:214-260
get_elevation_variable(D, F, area, wrote) ==
    LET st0 == [dirs |-> D, files |-> F, status |-> "ok", msg |-> "",
                result |-> <<>>, fetched |-> <<>>, cycle |-> <<>>,
                dir_time |-> <<>>, had_dir |-> FALSE]
    IN
    IF area = "puertori"
    THEN [st0 EXCEPT !.status = "ValueError",
                     !.msg = "Elevation currently not available for Puerto Rico"]
    ELSE IF NDFD_LOCAL_SERVER = None
    THEN [st0 EXCEPT !.status = "RuntimeError",
                     !.msg = "Local cache server must provide elevation data"]
    ELSE
      LET D1         == IF ~isdir(D, NDFD_TMP) THEN makedirs(D, NDFD_TMP)
                        ELSE D
          remote_var == PathJoin(
                            PathJoin((IF NDFD_LOCAL_SERVER_IS_DIR
                                      THEN <<"File:">> ELSE <<>>)
                                         \o NDFD_LOCAL_SERVER,
                                     NDFD_STATIC(area)),
                            NDFD_VAR("elev"))
          local_dir  == NDFD_TMP \o NDFD_STATIC(area)
          local_var  == local_dir \o NDFD_VAR("elev")
          D2         == IF ~isdir(D1, local_dir) THEN makedirs(D1, local_dir)
                        ELSE D1
          fetch      == ~isfile(F, local_var)
          F1         == IF fetch /\ wrote
                        THEN urlretrieve(F, remote_var, local_var, <<"static">>)
                        ELSE F
          fetched1   == IF fetch
                        THEN <<[remote |-> remote_var, local |-> local_var,
                                wrote |-> wrote]>>
                        ELSE <<>>
      IN  IF ~isfile(F1, local_var)
          THEN [st0 EXCEPT !.dirs = D2, !.files = F1, !.fetched = fetched1,
                           !.status = "RuntimeError",
                           !.msg = "Cannot retrieve NDFD variables at this time"]
          ELSE [st0 EXCEPT !.dirs = D2, !.files = F1, !.fetched = fetched1,
                           !.result = <<local_var>>]

\* what the call record keeps of a finished cache call
CallRecord(op, var, area, r) ==
    [op |-> op, var |-> var, area |-> area, status |-> r.status, msg |-> r.msg,
     result |-> r.result, fetched |-> r.fetched, cycle |-> r.cycle,
     dir_time |-> r.dir_time, had_dir |-> r.had_dir]

-----------------------------------------------------------------------------
(* the operations of the cache *)

NoGlft == [pc |-> "idle", first |-> DateTime(0, 0, 0, 0, 0),
           result |-> DateTime(0, 0, 0, 0, 0), drift |-> 0]

NoFa == [op |-> "none"]

\* no process is racing
NoProcs == <<>>

\* no function has been called
NoPf == [op |-> "none"]

\* The program is configured before it uses the cache (as the tests and the
\* demo do): no configuration call follows a cache call
Configuring == call.op \in {"none", "set_tmp_folder", "set_local_cache_server"}

\* set_tmp_folder(path)
SetTmpFolder ==
    /\ Configuring
    /\ \E path \in Roots : NDFD_TMP' = path
    /\ call' = [NoCall EXCEPT !.op = "set_tmp_folder"]
    /\ UNCHANGED <<clock, ticks, glft, NDFD_LOCAL_SERVER,
                   NDFD_LOCAL_SERVER_IS_DIR, dirs, files, fa,
                   procs, pf>>

\* set_local_cache_server(uri, is_local_dir)
SetLocalCacheServer ==
    /\ Configuring
    /\ \E uri \in Servers \cup {None}, is_local_dir \in BOOLEAN :
          /\ uri = None => ~is_local_dir
          /\ NDFD_LOCAL_SERVER' = uri
          /\ NDFD_LOCAL_SERVER_IS_DIR' = is_local_dir
    /\ call' = [NoCall EXCEPT !.op = "set_local_cache_server"]
    /\ UNCHANGED <<clock, ticks, glft, NDFD_TMP, dirs, files, fa,
                   procs, pf>>

\* the wall clock advances by half an hour
Tick ==
    /\ ticks < MaxTicks
    /\ ticks' = ticks + 1
    /\ clock' = AddMinutes(clock, 30)
    /\ UNCHANGED <<glft, NDFD_TMP, NDFD_LOCAL_SERVER, NDFD_LOCAL_SERVER_IS_DIR,
                   dirs, files, call, fa,
                   procs, pf>>

\* get_variable(var, area); the fetch for group fail_at, if any, writes nothing
GetVariableCall(var, area, fail_at) ==
    /\ \E r \in {get_variable(dirs, files, var, area, [k \in 1..3 |-> k # fail_at])} :
          /\ dirs' = r.dirs
          /\ files' = r.files
          /\ call' = CallRecord("get_variable", var, area, r)
    /\ UNCHANGED <<clock, ticks, glft, NDFD_TMP, NDFD_LOCAL_SERVER,
                   NDFD_LOCAL_SERVER_IS_DIR, fa,
                   procs, pf>>

GetVariable ==
    \E var \in Vars, area \in Areas, fail_at \in 0..2 :
        GetVariableCall(var, area, fail_at)

\* get_variable with a source that serves every file
GetVariableServed ==
    \E var \in Vars, area \in Areas : GetVariableCall(var, area, 0)

GetElevationVariable ==
    /\ \E area \in Areas, wrote \in BOOLEAN :
          \E r \in {get_elevation_variable(dirs, files, area, wrote)} :
              /\ dirs' = r.dirs
              /\ files' = r.files
              /\ call' = CallRecord("get_elevation_variable", "elev", area, r)
    /\ UNCHANGED <<clock, ticks, glft, NDFD_TMP, NDFD_LOCAL_SERVER,
                   NDFD_LOCAL_SERVER_IS_DIR, fa,
                   procs, pf>>

CacheInit ==
    /\ clock = DateTime(1, 0, 5, 0, 0)
    /\ ticks = 0
    /\ glft = NoGlft
    /\ NDFD_TMP = NDFD_TMP_DEFAULT
    /\ NDFD_LOCAL_SERVER = None
    /\ NDFD_LOCAL_SERVER_IS_DIR = FALSE
    /\ dirs = {}
    /\ files = {}
    /\ call = NoCall
    /\ fa = NoFa
    /\ procs = NoProcs
    /\ pf = NoPf

CacheNext ==
    \/ SetTmpFolder
    \/ SetLocalCacheServer
    \/ Tick
    \/ GetVariable

\* the cycle-keyed cache
SpecCache == CacheInit /\ [][CacheNext]_vars

ElevNext ==
    \/ SetTmpFolder
    \/ SetLocalCacheServer
    \/ Tick
    \/ GetVariableServed
    \/ GetElevationVariable

\* the static elevation cache, next to the cycle-keyed cache
SpecElev == CacheInit /\ [][ElevNext]_vars

-----------------------------------------------------------------------------
(* two processes in get_variable on the same cache root, statement by      *)
(* statement; each call of the file system is one step                     *)

Procs == {1, 2}

\* the regions the racing calls ask for
RaceAreas == {"conus", "neast"}

\* os.makedirs(s) raises OSError when s exists
makedirs_raises(D, s) == isdir(D, s)

\* urlretrieve opens local_var for writing: IOError when its directory is
\* not there
urlretrieve_raises(D, local_var) ==
    SubSeq(Resolve(local_var), 1, Len(Resolve(local_var)) - 1) \notin D

\* the names of ndfd.py:186-189 for the group process p is at
LocalDir(p) ==
    procs[p].dir_time \o NDFD_DIR(procs[p].area, DEFS_vars[procs[p].area][procs[p].k].vp)

LocalVar(p) == LocalDir(p) \o NDFD_VAR(procs[p].var)

\* process p moves to pc, with the fields of upd changed
Goto(p, pc, upd) ==
    /\ procs' = [procs EXCEPT ![p] = upd @@ [pc |-> pc] @@ @]
    /\ UNCHANGED <<clock, ticks, glft, NDFD_TMP, NDFD_LOCAL_SERVER,
                   NDFD_LOCAL_SERVER_IS_DIR, call, fa, pf>>

\* p raises: the call is over
Raise(p, status) == Goto(p, "done", [status |-> status])

\* ndfd.py:176-177
RaceIsdirCycle(p) ==
    /\ procs[p].pc = "l176"
    /\ LET cycle    == StrfTime(get_latest_forecast_time)
           dir_time == NDFD_TMP \o cycle \o <<SEP>>
       IN  Goto(p, IF isdir(dirs, dir_time) THEN "l183" ELSE "l179",
                [cycle |-> cycle, dir_time |-> dir_time])
    /\ UNCHANGED <<dirs, files>>

\* ndfd.py:178-181
RaceRmtree(p) ==
    /\ procs[p].pc = "l179"
    /\ dirs' = IF rmtree_raises(dirs, NDFD_TMP) THEN dirs
               ELSE rmtree_dirs(dirs, NDFD_TMP)
    /\ files' = IF rmtree_raises(dirs, NDFD_TMP) THEN files
                ELSE rmtree_files(files, NDFD_TMP)
    /\ Goto(p, "l182", <<>>)

\* ndfd.py:182
RaceMakedirsCycle(p) ==
    /\ procs[p].pc = "l182"
    /\ IF makedirs_raises(dirs, procs[p].dir_time)
       THEN Raise(p, "OSError") /\ UNCHANGED dirs
       ELSE Goto(p, "l183", <<>>) /\ dirs' = makedirs(dirs, procs[p].dir_time)
    /\ UNCHANGED files

\* ndfd.py:183-185 and 208-211: the next group holding the variable, or the
\* end of the call
RaceNextGroup(p) ==
    /\ procs[p].pc = "l183"
    /\ IF procs[p].area \notin DOMAIN DEFS_vars THEN Raise(p, "ValueError")
       ELSE IF procs[p].k > Len(DEFS_vars[procs[p].area])
       THEN Goto(p, "done", [status |-> "ok"])
       ELSE IF procs[p].var \in DEFS_vars[procs[p].area][procs[p].k].vars
       THEN Goto(p, "l190", <<>>)
       ELSE Goto(p, "l183", [k |-> procs[p].k + 1])
    /\ UNCHANGED <<dirs, files>>

\* ndfd.py:190
RaceIsdirLocal(p) ==
    /\ procs[p].pc = "l190"
    /\ Goto(p, IF isdir(dirs, LocalDir(p)) THEN "l192" ELSE "l191", <<>>)
    /\ UNCHANGED <<dirs, files>>

\* ndfd.py:191
RaceMakedirsLocal(p) ==
    /\ procs[p].pc = "l191"
    /\ IF makedirs_raises(dirs, LocalDir(p))
       THEN Raise(p, "OSError") /\ UNCHANGED dirs
       ELSE Goto(p, "l192", <<>>) /\ dirs' = makedirs(dirs, LocalDir(p))
    /\ UNCHANGED files

\* ndfd.py:192
RaceIsfile(p) ==
    /\ procs[p].pc = "l192"
    /\ Goto(p, IF isfile(files, LocalVar(p)) THEN "l202" ELSE "l198", <<>>)
    /\ UNCHANGED <<dirs, files>>

\* ndfd.py:193-201, with a source that serves the file
RaceUrlretrieve(p) ==
    /\ procs[p].pc = "l198"
    /\ IF urlretrieve_raises(dirs, LocalVar(p))
       THEN Raise(p, "IOError") /\ UNCHANGED files
       ELSE /\ Goto(p, "l202", [fetches |-> procs[p].fetches + 1])
            /\ files' = urlretrieve(files, RemoteVar(LocalVar(p)), LocalVar(p),
                                    procs[p].cycle)
    /\ UNCHANGED dirs

\* ndfd.py:202-207
RaceRecheck(p) ==
    /\ procs[p].pc = "l202"
    /\ IF ~isfile(files, LocalVar(p)) THEN Raise(p, "RuntimeError")
       ELSE Goto(p, "l183", [k |-> procs[p].k + 1,
                             gribs |-> Append(procs[p].gribs, LocalVar(p))])
    /\ UNCHANGED <<dirs, files>>

\* both processes are about to call get_variable(var, area) in the same
\* cycle; the cache is empty, holds the tree of the cycle before, or holds
\* the files of an earlier call of this cycle
RaceInit ==
    /\ clock = DateTime(1, 0, 5, 0, 0)
    /\ ticks = 0
    /\ glft = NoGlft
    /\ NDFD_TMP = NDFD_TMP_DEFAULT
    /\ NDFD_LOCAL_SERVER = None
    /\ NDFD_LOCAL_SERVER_IS_DIR = FALSE
    /\ call = NoCall
    /\ fa = NoFa
    /\ pf = NoPf
    /\ \E var \in Vars, area \in RaceAreas :
          /\ procs = [p \in Procs |->
                         [pc |-> "l176", var |-> var, area |-> area, k |-> 1,
                          cycle |-> <<>>, dir_time |-> <<>>, gribs |-> <<>>,
                          fetches |-> 0, status |-> "running"]]
          /\ \E disk \in {"empty", "previous cycle", "this cycle"} :
                LET warm == get_variable({}, {}, var, area, [k \in 1..3 |-> TRUE])
                    old  == NDFD_TMP_DEFAULT
                                \o StrfTime(MinusOneHour(get_latest_forecast_time))
                                \o <<SEP>>
                IN  /\ dirs = IF disk = "empty" THEN {}
                              ELSE IF disk = "this cycle" THEN warm.dirs
                              ELSE makedirs({}, old)
                    /\ files = IF disk = "this cycle" THEN warm.files ELSE {}

RaceNext ==
    \E p \in Procs :
        \/ RaceIsdirCycle(p)
        \/ RaceRmtree(p)
        \/ RaceMakedirsCycle(p)
        \/ RaceNextGroup(p)
        \/ RaceIsdirLocal(p)
        \/ RaceMakedirsLocal(p)
        \/ RaceIsfile(p)
        \/ RaceUrlretrieve(p)
        \/ RaceRecheck(p)

\* two processes racing in get_variable
SpecRace == RaceInit /\ [][RaceNext]_vars

-----------------------------------------------------------------------------
(* numbers, lists and statistics *)

\* Python's float NaN; a float result is <<numerator, denominator>>
NaN == <<>>

\* round(num / den) for den > 0: Python 2 rounds a half away from zero,
\* Python 3 to the even neighbour
Round(num, den, py) ==
    LET q == num \div den
        r == num % den
    IN  IF 2 * r < den THEN q
        ELSE IF 2 * r > den THEN q + 1
        ELSE IF py = 2 THEN (IF num >= 0 THEN q + 1 ELSE q)
        ELSE (IF q % 2 = 0 THEN q ELSE q + 1)

RECURSIVE SumSeq(_)
SumSeq(vals) == IF vals = <<>> THEN 0 ELSE vals[1] + SumSeq(Tail(vals))

RECURSIVE MinSeq(_)
MinSeq(vals) ==
    IF Len(vals) = 1 THEN vals[1]
    ELSE LET m == MinSeq(Tail(vals)) IN IF vals[1] <= m THEN vals[1] ELSE m

RECURSIVE MaxSeq(_)
MaxSeq(vals) ==
    IF Len(vals) = 1 THEN vals[1]
    ELSE LET m == MaxSeq(Tail(vals)) IN IF vals[1] >= m THEN vals[1] ELSE m

\* sorted(vals)
RECURSIVE Insert(_, _)
Insert(v, sorted_list) ==
    IF sorted_list = <<>> THEN <<v>>
    ELSE IF v <= sorted_list[1] THEN <<v>> \o sorted_list
    ELSE <<sorted_list[1]>> \o Insert(v, Tail(sorted_list))

RECURSIVE Sorted(_)
Sorted(vals) ==
    IF vals = <<>> THEN <<>> ELSE Insert(vals[1], Sorted(Tail(vals)))

\* median(vals), ndfd.py:126-142
median(vals) ==
    LET sorted_list == Sorted(vals)
        list_length == Len(vals)
        index       == (list_length - 1) \div 2
    IN  IF list_length % 2 = 1 THEN <<sorted_list[index + 1], 1>>
        ELSE <<sorted_list[index + 1] + sorted_list[index + 2], 2>>

\* std_dev(vals), ndfd.py:108-123: the square root of the variance, kept as
\* the variance (N * sum of squares - square of the sum) / N^2 it is the root of
std_dev(vals) ==
    <<"sqrt", Len(vals) * SumSeq([k \in DOMAIN vals |-> vals[k] * vals[k]])
                  - SumSeq(vals) * SumSeq(vals),
      Len(vals) * Len(vals)>>

\* min, max, mean, median, stdDev and sum of a non-empty list
Statistics(vals) ==
    [min |-> <<MinSeq(vals), 1>>, max |-> <<MaxSeq(vals), 1>>,
     mean |-> <<SumSeq(vals), Len(vals)>>, median |-> median(vals),
     stdDev |-> std_dev(vals), sum |-> <<SumSeq(vals), 1>>]

-----------------------------------------------------------------------------
(* grid messages, as the grid decoder (pygrib) hands them out *)

\* A message: valid time vt, projection parameters proj (the scale of the
\* planar coordinates), cell spacing under one of the two key conventions,
\* first grid point, a values array of H rows and W columns, units.  The value
\* of the cell in row r, column c is base + r * W + c, so that a value tells
\* the message and the cell it was read from.
Message(vt, proj, keys, d, lon0, lat0, W, H, base) ==
    [vt |-> vt, projparams |-> proj,
     spacing |-> IF keys = "Dx" THEN [DxInMetres |-> d, DyInMetres |-> d]
                 ELSE [DiInMetres |-> d, DjInMetres |-> d],
     lon0 |-> lon0, lat0 |-> lat0, W |-> W, H |-> H, base |-> base,
     parameterUnits |-> "K"]

\* the messages of the file of a group, as the source serves it
FileMessages ==
    ("004-007" :> <<Message(DateTime(1, 1, 0, 0, 0), 1, "Dx", 2, 0, 0, 4, 3, 100),
                    Message(DateTime(1, 2, 0, 0, 0), 1, "Dx", 2, 0, 0, 4, 3, 200)>>)
    @@ ("001-003" :> <<Message(DateTime(1, 2, 0, 0, 0), 2, "Di", 2, 0, 0, 4, 3, 300),
                       Message(DateTime(1, 4, 0, 0, 0), 2, "Di", 2, 0, 0, 4, 3, 400)>>)
    @@ ("008-450" :> <<Message(DateTime(1, 3, 0, 0, 0), 1, "Dx", 2, 0, 0, 4, 3, 500)>>)

\* the single message of the elevation file of a region
ElevationMessage == Message(DateTime(0, 0, 0, 0, 0), 1, "Dx", 2, -2, 0, 5, 3, 900)

\* the group a cached path belongs to: the atom after "VP."
RECURSIVE GroupOf(_)
GroupOf(local_var) ==
    IF local_var[1] = "VP." THEN local_var[2] ELSE GroupOf(Tail(local_var))

\* pygrib.open(g): the messages of a cached file
OpenGrib(local_var) == FileMessages[GroupOf(local_var)]

\* grb.values[row][col]: an index from -length to length - 1 is accepted, a
\* negative one counting from the end; any other raises IndexError
IndexOk(i, length) == -length <= i /\ i < length

PyIndex(i, length) == IF i < 0 THEN i + length ELSE i

\* no projparams argument
NoProj == 0

\* Proj(projparams)(lon, lat): planar coordinates
Project(projparams, lon, lat) == [x |-> projparams * lon, y |-> projparams * lat]

\* ndfd.py:327-331, the names of the spacing keys of a message
SpacingKeys(grb) ==
    IF "DxInMetres" \notin DOMAIN grb.spacing /\ "DyInMetres" \notin DOMAIN grb.spacing
    THEN [x |-> "DiInMetres", y |-> "DjInMetres"]
    ELSE [x |-> "DxInMetres", y |-> "DyInMetres"]

\* get_nearest_grid_point(grb, lat, lon, projparams), ndfd.py:295-338; g_lon
\* and g_lat are the inverse projection, a quotient <<numerator, scale>>
get_nearest_grid_point(grb, lat, lon, projparams, py) ==
    LET p      == IF projparams = NoProj THEN grb.projparams ELSE projparams
        offset == Project(p, grb.lon0, grb.lat0)
        grid   == Project(p, lon, lat)
        names  == SpacingKeys(grb)
        x      == Round(grid.x - offset.x, grb.spacing[names.x], py)
        y      == Round(grid.y - offset.y, grb.spacing[names.y], py)
    IN  [x |-> x, y |-> y, grid_x |-> grid.x, grid_y |-> grid.y,
         g_lat |-> <<y * grb.spacing[names.y] + offset.y, p>>,
         g_lon |-> <<x * grb.spacing[names.x] + offset.x, p>>]

-----------------------------------------------------------------------------
(* get_forecast_analysis *)

\* None for min_time / max_time, and for area
NoTime == DateTime(-1, 0, 0, 0, 0)

NoArea == ""

\* range(0, 250, time_step), ndfd.py:420
HORIZON == 250

\* a < b on datetimes
DtSeconds(t) == (((t.ord * 24 + t.hour) * 60 + t.minute) * 60) + t.second

DtLess(a, b) ==
    \/ DtSeconds(a) < DtSeconds(b)
    \/ DtSeconds(a) = DtSeconds(b) /\ a.microsecond < b.microsecond

\* the same loop stepping from forecastTime itself
ValidTimesFromCycle(forecastTime, time_step, min_time, max_time) ==
    LET count    == (HORIZON + time_step - 1) \div time_step
        T(k)     == AddMinutes(forecastTime, 60 * (k - 1) * time_step)
        Skip(t)  == min_time # NoTime /\ DtLess(t, min_time)
        Break(t) == ~Skip(t) /\ max_time # NoTime /\ DtLess(max_time, t)
        stop     == CHOOSE k \in 1..(count + 1) :
                        /\ k = count + 1 \/ Break(T(k))
                        /\ \A j \in 1..(k - 1) : ~Break(T(j))
    IN  SelectSeq([k \in 1..(stop - 1) |-> T(k)], LAMBDA t : ~Skip(t))

\* ndfd.py:419-430: the times of the hours of range(0, 250, time_step), in
\* order, without those before min_time, up to the first one after max_time
ValidTimes(forecastTime, time_step, min_time, max_time) ==
    LET count    == (HORIZON + time_step - 1) \div time_step
        T(k)     == AddMinutes([forecastTime EXCEPT !.hour = 0],
                               60 * (k - 1) * time_step)
        Skip(t)  == min_time # NoTime /\ DtLess(t, min_time)
        Break(t) == ~Skip(t) /\ max_time # NoTime /\ DtLess(max_time, t)
        stop     == CHOOSE k \in 1..(count + 1) :
                        /\ k = count + 1 \/ Break(T(k))
                        /\ \A j \in 1..(k - 1) : ~Break(T(j))
    IN  SelectSeq([k \in 1..(stop - 1) |-> T(k)], LAMBDA t : ~Skip(t))

\* G.inv(lon1, lat1, lon2, lat2)[-1], the distance of two points, for the
\* comparison of distances
GeodDist(lon1, lat1, lon2, lat2) ==
    (lon1 - lon2) * (lon1 - lon2) + (lat1 - lat2) * (lat1 - lat2)

\* ndfd.py:281-290
RECURSIVE SmallestFrom(_, _, _, _, _)
SmallestFrom(k, lat, lon, smallest, min_dist) ==
    IF k > Len(DEFS_grids) THEN smallest
    ELSE IF DEFS_grids[k].area \in {"conus", "nhemi", "npacocn"}
    THEN SmallestFrom(k + 1, lat, lon, smallest, min_dist)
    ELSE LET dist == GeodDist(lon, lat, DEFS_grids[k].lonC, DEFS_grids[k].latC)
         IN  IF dist < min_dist
             THEN SmallestFrom(k + 1, lat, lon, DEFS_grids[k].area, dist)
             ELSE SmallestFrom(k + 1, lat, lon, smallest, min_dist)

\* get_smallest_grid(lat, lon), ndfd.py:263-292
get_smallest_grid(lat, lon) ==
    LET ne == CHOOSE k \in DOMAIN DEFS_grids : DEFS_grids[k].area = "neast"
    IN  SmallestFrom(1, lat, lon, "neast",
                     GeodDist(lon, lat, DEFS_grids[ne].lonC, DEFS_grids[ne].latC))

\* validate_arguments, ndfd.py:341-376: the message of the error, "" if none
validate_arguments_area_first(var, area, time_step) ==
    IF area \notin DOMAIN DEFS_vars THEN "Invalid Area."
    ELSE IF time_step < 1 THEN "time_step must be >= 1"
    ELSE IF \A k \in DOMAIN DEFS_vars[area] : var \notin DEFS_vars[area][k].vars
    THEN "Variable not available in area"
    ELSE ""

validate_arguments(var, area, time_step) ==
    IF time_step < 1 THEN "time_step must be >= 1"
    ELSE IF area \notin DOMAIN DEFS_vars THEN "Invalid Area."
    ELSE IF \A k \in DOMAIN DEFS_vars[area] : var \notin DEFS_vars[area][k].vars
    THEN "Variable not available in area"
    ELSE ""

\* ndfd.py:469-498: the offsets <<i, j>> of the cells read, in reading order
Offsets(n) ==
    IF n = 0 THEN <<<<0, 0>>>>
    ELSE [k \in 1..((2 * n + 1) * (2 * n + 1)) |->
             <<((k - 1) \div (2 * n + 1)) - n, ((k - 1) % (2 * n + 1)) - n>>]

\* grb.values[y + j][x + i] raises no IndexError
ReadOk(grb, x, y, off) ==
    IndexOk(y + off[2], grb.H) /\ IndexOk(x + off[1], grb.W)

\* the cell grb.values[y + j][x + i] is read from
ReadCell(grb, x, y, off) ==
    [row |-> PyIndex(y + off[2], grb.H), col |-> PyIndex(x + off[1], grb.W)]

CellValue(grb, cell) == grb.base + cell.row * grb.W + cell.col

\* ndfd.py:507-514, with one sample the record holds 'nearest' only
HasStatisticsAlways(vals) == TRUE

HasStatistics(vals) == Len(vals) > 1

\* ndfd.py:505-514
ForecastRecord(vals, nearest_val) ==
    IF HasStatistics(vals)
    THEN ("nearest" :> nearest_val) @@ ("points" :> Len(vals)) @@ Statistics(vals)
    ELSE ("nearest" :> nearest_val)

\* ndfd.py:516-527
ElevationRecord(e, e_vals, e_nearest_val) ==
    IF Len(e_vals) > 1
    THEN ("nearest" :> e_nearest_val) @@ ("units" :> e.parameterUnits)
             @@ ("points" :> Len(e_vals))
             @@ [k \in {"min", "max", "mean", "median", "stdDev"} |->
                    Statistics(e_vals)[k]]
    ELSE ("nearest" :> e_nearest_val) @@ ("units" :> e.parameterUnits)

\* ndfd.py:529 left out: the flag stays as it was
ElevAfterKept(st) == st.elev

\* ndfd.py:529, elev = False after the elevation entry is written
ElevAfter(st) == FALSE

\* ndfd.py:445 with the header written for every message
WritesHeaderAlways(st) == TRUE

\* ndfd.py:445 and 458: if first_run: ... first_run = False
WritesHeader(st) == st.first_run

\* ndfd.py:438-531, the body of the loop for one message grb; c holds the
\* arguments of the call
AnalyseMessage(grb, file, st, c) ==
    LET t       == grb.vt
        loc     == get_nearest_grid_point(grb, c.lat, c.lon, NoProj, c.py)
        names   == SpacingKeys(grb)
        header  == IF WritesHeader(st)
                   THEN [gridLat |-> loc.g_lat, gridLon |-> loc.g_lon,
                         units |-> grb.parameterUnits,
                         deltaX |-> grb.spacing[names.x],
                         deltaY |-> grb.spacing[names.y],
                         distance |-> <<"G.inv", c.lon, c.lat, loc.g_lon, loc.g_lat>>]
                        @@ st.analysis
                   ELSE st.analysis
        er      == IF st.elev
                   THEN get_elevation_variable(st.dirs, st.files, c.area, c.elev_wrote)
                   ELSE [status |-> "ok", msg |-> "", dirs |-> st.dirs,
                         files |-> st.files, fetched |-> <<>>, result |-> <<>>]
        e       == ElevationMessage
        eloc    == get_nearest_grid_point(e, c.lat, c.lon, grb.projparams, c.py)
        offs    == Offsets(c.n)
        ok      == \A k \in DOMAIN offs :
                      /\ ReadOk(grb, loc.x, loc.y, offs[k])
                      /\ st.elev => ReadOk(e, eloc.x, eloc.y, offs[k])
        cells   == [k \in DOMAIN offs |-> ReadCell(grb, loc.x, loc.y, offs[k])]
        vals    == [k \in DOMAIN offs |-> CellValue(grb, cells[k])]
        e_vals  == [k \in DOMAIN offs |->
                       CellValue(e, ReadCell(e, eloc.x, eloc.y, offs[k]))]
        centre  == CHOOSE k \in DOMAIN offs : offs[k] = <<0, 0>>
        st1     == [st EXCEPT !.dirs = er.dirs, !.files = er.files,
                              !.fetched = @ \o er.fetched,
                              !.elev_lookups = @ + (IF st.elev THEN 1 ELSE 0)]
    IN  IF \A k \in DOMAIN c.valid_times : c.valid_times[k] # t THEN st
        ELSE IF er.status # "ok"
        THEN [st1 EXCEPT !.status = er.status, !.msg = er.msg]
        ELSE IF ~ok
        THEN [st1 EXCEPT !.status = "ValueError",
                         !.msg = "Given coordinates go beyond the grid"]
        ELSE [st1 EXCEPT
                 !.analysis = IF st.elev
                              THEN ("elevation" :> ElevationRecord(e, e_vals,
                                                       e_vals[centre])) @@ header
                              ELSE header,
                 !.forecasts = (t :> ForecastRecord(vals, vals[centre])) @@ @,
                 !.all_vals = @ \o vals,
                 !.first_run = FALSE,
                 !.elev = ElevAfter(st),
                 !.reads = Append(@, [t |-> t, file |-> file, x |-> loc.x,
                                      y |-> loc.y, projparams |-> grb.projparams,
                                      base |-> grb.base, W |-> grb.W, H |-> grb.H,
                                      cells |-> cells, vals |-> vals,
                                      offsets |-> offs])]

\* ndfd.py:435-532, the loops over the files from file g on and the messages
\* of a file from message k on
RECURSIVE AnalyseFiles(_, _, _, _, _)
AnalyseFiles(var_grbs, g, k, st, c) ==
    IF g > Len(var_grbs) \/ st.status # "ok" THEN st
    ELSE IF k > Len(OpenGrib(var_grbs[g]))
    THEN AnalyseFiles(var_grbs, g + 1, 1, st, c)
    ELSE AnalyseFiles(var_grbs, g, k + 1,
                      AnalyseMessage(OpenGrib(var_grbs[g])[k], g, st, c), c)

\* ndfd.py:534-547
OverallStatistics(all_vals) ==
    IF Len(all_vals) > 0 THEN Statistics(all_vals)
    ELSE [k \in {"min", "max", "mean", "median", "stdDev", "sum"} |-> NaN]

\* the outcome of a call that raised before it touched the cache
Raised(D, F, status, msg) ==
    [status |-> status, msg |-> msg, analysis |-> <<>>, forecasts |-> <<>>,
     dirs |-> D, files |-> F, fetched |-> <<>>, cache_access |-> FALSE,
     reads |-> <<>>, elev_lookups |-> 0, all_vals |-> <<>>,
     valid_times |-> <<>>, area |-> NoArea]

\* get_forecast_analysis(var, lat, lon, n, time_step, elev, min_time,
\* max_time, area), ndfd.py:379-549, run by Python py; wrote[k] tells whether
\* the fetch for group k writes the file, elev_wrote whether the fetch of the
\* elevation file does
get_forecast_analysis(D, F, var, lat, lon, n, time_step, elev, min_time, max_time, area0, py, wrote, elev_wrote) ==
    IF n < 0 THEN Raised(D, F, "ValueError", "n must be >= 0")
    ELSE
      LET area == IF area0 = NoArea THEN get_smallest_grid(lat, lon) ELSE area0
      IN
      IF validate_arguments(var, area, time_step) # ""
      THEN Raised(D, F, "ValueError", validate_arguments(var, area, time_step))
      ELSE
        LET forecastTime == get_latest_forecast_time
            valid_times  == ValidTimes(forecastTime, time_step, min_time,
                                       max_time)
            gv  == get_variable(D, F, var, area, wrote)
            c   == [lat |-> lat, lon |-> lon, n |-> n, area |-> area, py |-> py,
                    valid_times |-> valid_times, elev_wrote |-> elev_wrote]
            st0 == [status |-> gv.status, msg |-> gv.msg,
                    analysis |-> [var |-> var, reqLat |-> lat, reqLon |-> lon,
                                  n |-> n, forecastTime |-> forecastTime],
                    forecasts |-> <<>>, dirs |-> gv.dirs, files |-> gv.files,
                    fetched |-> gv.fetched, cache_access |-> TRUE,
                    reads |-> <<>>, elev_lookups |-> 0, all_vals |-> <<>>,
                    valid_times |-> valid_times, area |-> area,
                    first_run |-> TRUE, elev |-> elev]
            st  == AnalyseFiles(gv.result, 1, 1, st0, c)
        IN  IF st.status # "ok"
            THEN [Raised(st.dirs, st.files, st.status, st.msg) EXCEPT
                     !.fetched = st.fetched, !.cache_access = TRUE,
                     !.elev_lookups = st.elev_lookups, !.area = area]
            ELSE [status |-> "ok", msg |-> "",
                  analysis |-> OverallStatistics(st.all_vals) @@ st.analysis,
                  forecasts |-> st.forecasts, dirs |-> st.dirs,
                  files |-> st.files, fetched |-> st.fetched,
                  cache_access |-> TRUE, reads |-> st.reads,
                  elev_lookups |-> st.elev_lookups, all_vals |-> st.all_vals,
                  valid_times |-> valid_times, area |-> area]

\* the arguments of the calls
AnalysisAreas == {NoArea, "conus", "puertori", "wrong"}

Radii == {-1, 0, 1}

TimeSteps == {0, 2}

\* <<lon, lat>>
Points == {<<2, 1>>, <<-2, 2>>, <<10, 2>>}

\* <<min_time, max_time>>
TimeBounds ==
    {<<NoTime, NoTime>>, <<DateTime(1, 2, 0, 0, 0), DateTime(1, 2, 0, 0, 0)>>}

\* the major version of the interpreter
Pythons == {2, 3}

\* get_forecast_analysis(var, lat, lon, n, time_step, elev, min_time, max_time,
\* area) called while no call is under way, with a source that serves every
\* file asked of it
GetForecastAnalysis ==
    /\ fa.op = "none"
    /\ \E var \in Vars, area \in AnalysisAreas, n \in Radii,
          time_step \in TimeSteps, point \in Points, tb \in TimeBounds,
          elev \in BOOLEAN, py \in Pythons :
          \E r \in {get_forecast_analysis(dirs, files, var, point[2], point[1],
                        n, time_step, elev, tb[1], tb[2], area, py,
                        [k \in 1..3 |-> TRUE], TRUE)} :
              /\ dirs' = r.dirs
              /\ files' = r.files
              /\ fa' = [op |-> "get_forecast_analysis", var |-> var,
                        lat |-> point[2], lon |-> point[1], n |-> n,
                        time_step |-> time_step, elev |-> elev,
                        min_time |-> tb[1], max_time |-> tb[2],
                        area |-> area, py |-> py,
                        status |-> r.status, msg |-> r.msg,
                        analysis |-> r.analysis, forecasts |-> r.forecasts,
                        fetched |-> r.fetched, cache_access |-> r.cache_access,
                        reads |-> r.reads, elev_lookups |-> r.elev_lookups,
                        all_vals |-> r.all_vals, resolved_area |-> r.area]
    /\ call' = [NoCall EXCEPT !.op = "get_forecast_analysis"]
    /\ UNCHANGED <<clock, ticks, glft, NDFD_TMP, NDFD_LOCAL_SERVER,
                   NDFD_LOCAL_SERVER_IS_DIR,
                   procs, pf>>

\* ndfd.py:549 and the raise statements: the call is over, the caller has
\* its dict or its exception
Return ==
    /\ fa.op # "none"
    /\ fa' = NoFa
    /\ UNCHANGED <<clock, ticks, glft, NDFD_TMP, NDFD_LOCAL_SERVER,
                   NDFD_LOCAL_SERVER_IS_DIR, dirs, files, call,
                   procs, pf>>

AnalysisNext ==
    \/ SetLocalCacheServer
    \/ Tick
    \/ GetForecastAnalysis
    \/ Return

\* forecast analyses over the cache
SpecAnalysis == CacheInit /\ [][AnalysisNext]_vars

-----------------------------------------------------------------------------
(* unpack_string: a text is a sequence of character codes *)

MaxLines == 2          \* lines of a packed text

\* ord(c) of the characters of the texts used
Ord ==
    (":" :> 58) @@ ("." :> 46) @@ ("<" :> 60) @@ (">" :> 62) @@ ("N" :> 78)
    @@ ("o" :> 111) @@ ("n" :> 110) @@ ("e" :> 101) @@ ("a" :> 97)
    @@ ("b" :> 98) @@ ("c" :> 99) @@ ("d" :> 100) @@ ("G" :> 71)
    @@ ("L" :> 76) @@ ("A" :> 65) @@ ("\n" :> 10)

\* the text of a sequence of characters
Text(chars) == [k \in DOMAIN chars |-> Ord[chars[k]]]

Reverse(seq) == [k \in DOMAIN seq |-> seq[Len(seq) + 1 - k]]

\* the 8 bits of a byte, most significant first
Bits8(b) == [k \in 1..8 |-> (b \div (2 ^ (8 - k))) % 2]

\* int("".join(["%.2x" % x for x in iterbytes(raw)]), 16), as its bits
RECURSIVE BitsOf(_)
BitsOf(raw) == IF raw = <<>> THEN <<>> ELSE Bits8(raw[1]) \o BitsOf(Tail(raw))

\* the number a sequence of bits stands for
RECURSIVE BitsValue(_)
BitsValue(bits) ==
    IF bits = <<>> THEN 0
    ELSE 2 * BitsValue(SubSeq(bits, 1, Len(bits) - 1)) + bits[Len(bits)]

\* str.splitlines() of a text whose only line break is "\n"
SplitLines(msg) ==
    LET RECURSIVE R(_, _, _)
        R(i, cur, acc) ==
            IF i > Len(msg)
            THEN IF cur = <<>> THEN acc ELSE Append(acc, cur)
            ELSE IF msg[i] = Ord["\n"] THEN R(i + 1, <<>>, Append(acc, cur))
            ELSE R(i + 1, Append(cur, msg[i]), acc)
    IN  R(1, <<>>, <<>>)

\* line.count(c)
Count(line, c) == Cardinality({k \in DOMAIN line : line[k] = c})

\* sub in line
Contains(line, sub) ==
    \E k \in 1..(Len(line) - Len(sub) + 1) :
        SubSeq(line, k, k + Len(sub) - 1) = sub

\* ndfd.py:582-584, the test a line passes to be kept as a code
IsCodeOfAnyLength(line) ==
    \/ Count(line, Ord[":"]) >= 4
    \/ Count(line, Ord["."]) >= 1
    \/ Contains(line, Text(<<"<", "N", "o", "n", "e", ">">>))

IsCode(line) ==
    /\ Len(line) >= 4
    /\ \/ Count(line, Ord[":"]) >= 4
       \/ Count(line, Ord["."]) >= 1
       \/ Contains(line, Text(<<"<", "N", "o", "n", "e", ">">>))

\* ndfd.py:563-578, the text packed in raw
DecodeText(raw) ==
    LET num_bytes == (Len(raw) * 8 - 1) \div 7
        remainder == (Len(raw) * 8 - 1) % 7
        i         == SubSeq(BitsOf(raw), 1, Len(raw) * 8 - remainder)
        byte(g)   == BitsValue(SubSeq(i, Len(i) - 7 * g + 1, Len(i) - 7 * (g - 1)))
        msg       == SelectSeq([g \in 1..num_bytes |->
                                   IF byte(g) = 0 THEN Ord["\n"] ELSE byte(g)],
                               LAMBDA c : c = Ord["\n"] \/ (32 <= c /\ c <= 126))
    IN  Reverse(msg)

\* unpack_string(raw), ndfd.py:552-587
unpack_string(raw) == SelectSeq(SplitLines(DecodeText(raw)), IsCode)

\* the lines the packed texts are made of
SampleLines ==
    {Text(<<>>), Text(<<"a">>), Text(<<"a", ".", "b">>),
     Text(<<"G", "L", ".", "A">>), Text(<<"a", "b", "c", "d">>),
     Text(<<":", ":", ":">>), Text(<<":", ":", ":", ":">>),
     Text(<<"a", ":", "b", ":", "c", ":", "d">>),
     Text(<<"<", "N", "o", "n", "e", ">">>)}

\* the texts of 1 to MaxLines lines
SampleTexts == UNION {[1..len -> SampleLines] : len \in 1..MaxLines}

\* the bytes a text is packed in by the producer of the grid files: a
\* leading bit, 7 bits a character ("\n" as 0), zero bits up to a whole byte
Pack(lines, lead) ==
    LET RECURSIVE Join(_)
        Join(k) == IF k > Len(lines) THEN <<>>
                   ELSE IF k = Len(lines) THEN lines[k]
                   ELSE lines[k] \o <<Ord["\n"]>> \o Join(k + 1)
        text    == Join(1)
        Bits7(c) == IF c = Ord["\n"] THEN [k \in 1..7 |-> 0]
                    ELSE [k \in 1..7 |-> (c \div (2 ^ (7 - k))) % 2]
        RECURSIVE TextBits(_)
        TextBits(k) == IF k > Len(text) THEN <<>>
                       ELSE Bits7(text[k]) \o TextBits(k + 1)
        bits    == <<lead>> \o TextBits(1)
        padded  == bits \o [k \in 1..((8 - (Len(bits) % 8)) % 8) |-> 0]
    IN  [b \in 1..(Len(padded) \div 8) |->
            BitsValue(SubSeq(padded, 8 * b - 7, 8 * b))]

\* a call of unpack_string is about to be made
UnpackInit ==
    /\ clock = DateTime(1, 0, 5, 0, 0)
    /\ ticks = 0
    /\ glft = NoGlft
    /\ NDFD_TMP = NDFD_TMP_DEFAULT
    /\ NDFD_LOCAL_SERVER = None
    /\ NDFD_LOCAL_SERVER_IS_DIR = FALSE
    /\ dirs = {}
    /\ files = {}
    /\ call = NoCall
    /\ fa = NoFa
    /\ procs = NoProcs
    /\ \E lines \in SampleTexts, lead \in {0, 1} :
          pf = [op |-> "unpack_string", pc |-> "call", lines |-> lines,
                raw |-> Pack(lines, lead), result |-> <<>>]

\* unpack_string(raw)
UnpackString ==
    /\ pf.op = "unpack_string"
    /\ pf.pc = "call"
    /\ pf' = [pf EXCEPT !.pc = "done", !.result = unpack_string(pf.raw)]
    /\ UNCHANGED <<clock, ticks, glft, NDFD_TMP, NDFD_LOCAL_SERVER,
                   NDFD_LOCAL_SERVER_IS_DIR, dirs, files, call, fa, procs>>

\* the packed-string decoder
SpecUnpack == UnpackInit /\ [][UnpackString]_vars

-----------------------------------------------------------------------------
(* parse_weather_string and parse_advisory_string.  A code string is a      *)
(* sequence of atoms, the separators "^", ":", "," and "." among them; a    *)
(* phrase is a sequence of tokens <<word, case>>, the word in lower case,   *)
(* the case "Title" (first letter a capital), "lower" or "" (no letter)     *)

MaxEvents == 2         \* events of a code string

W(word) == <<<<word, "Title">>>>

w(word) == <<<<word, "lower">>>>

SP == <<<<" ", "">>>>

NL == <<<<"\n", "">>>>

\* DEFS["wx"] and DEFS["wwa"], the code tables
DEFS_wx ==
    [coverage   |-> [Sct |-> W("scattered")],
     intensity  |-> ("-" :> W("light")) @@ ("+" :> W("heavy")),
     weather    |-> [A |-> W("hail"), SW |-> W("snow") \o SP \o W("showers")],
     hazards    |-> [LgA |-> W("large") \o SP \o W("hail")],
     attributes |-> [OLA |-> w("on") \o SP \o w("outlying") \o SP \o w("areas")],
     visibility |-> ("0SM" :> <<0, 1>>) @@ ("1SM" :> <<1, 1>>)
                        @@ ("2SM" :> <<2, 1>>)]

DEFS_wwa ==
    [hazards    |-> [AF |-> W("ash") \o SP \o W("fall"),
                     WI |-> W("wind")],
     advisories |-> [W |-> W("warning"), Y |-> W("advisory")]]

\* s.split(sep)
Split(s, sep) ==
    LET RECURSIVE R(_, _, _)
        R(i, cur, acc) ==
            IF i > Len(s) THEN Append(acc, cur)
            ELSE IF s[i] = sep THEN R(i + 1, <<>>, Append(acc, cur))
            ELSE R(i + 1, Append(cur, s[i]), acc)
    IN  R(1, <<>>, <<>>)

\* code in table, table[code]: a code is the string of one atom
InTable(code, table) == Len(code) = 1 /\ code[1] \in DOMAIN table

Lookup(code, table) == table[code[1]]

\* marker in code
HasMarker(code, marker) == \E k \in DOMAIN code : code[k] = marker

\* str.lower(), str.capitalize(), str.title(), str.strip()
Lower(text) ==
    [k \in DOMAIN text |->
        IF text[k][2] = "" THEN text[k] ELSE <<text[k][1], "lower">>]

Capitalize(text) ==
    [k \in DOMAIN text |->
        IF text[k][2] = "" THEN text[k]
        ELSE IF k = 1 THEN <<text[k][1], "Title">>
        ELSE <<text[k][1], "lower">>]

Title(text) ==
    [k \in DOMAIN text |->
        IF text[k][2] = "" THEN text[k] ELSE <<text[k][1], "Title">>]

RECURSIVE Strip(_)
Strip(text) ==
    IF text = <<>> THEN text
    ELSE IF text[1][2] = "" THEN Strip(Tail(text))
    ELSE IF text[Len(text)][2] = "" THEN Strip(SubSeq(text, 1, Len(text) - 1))
    ELSE text

\* floats: NaN or <<numerator, denominator>>
isnan(v) == v = NaN

FloatLess(a, b) == a[1] * b[2] < b[1] * a[2]

\* ndfd.py:622-649: the text and the warnings of the first three fields
CoverageText(coverage) ==
    IF HasMarker(coverage, "<NoCov>") \/ HasMarker(coverage, "Lkly") THEN <<>>
    ELSE IF InTable(coverage, DEFS_wx.coverage)
    THEN Lookup(coverage, DEFS_wx.coverage) \o SP
    ELSE <<>>

CoverageWarningSilent(coverage) == <<>>

CoverageWarning(coverage) ==
    IF HasMarker(coverage, "<NoCov>") \/ HasMarker(coverage, "Lkly")
           \/ InTable(coverage, DEFS_wx.coverage)
    THEN <<>> ELSE <<<<"Unknown coverage code", coverage>>>>

Likely(coverage) ==
    ~HasMarker(coverage, "<NoCov>") /\ HasMarker(coverage, "Lkly")

IntensityText(intensity) ==
    IF HasMarker(intensity, "<NoInten>") THEN <<>>
    ELSE IF InTable(intensity, DEFS_wx.intensity)
    THEN Lookup(intensity, DEFS_wx.intensity) \o SP
    ELSE <<>>

IntensityWarning(intensity) ==
    IF HasMarker(intensity, "<NoInten>") \/ InTable(intensity, DEFS_wx.intensity)
    THEN <<>> ELSE <<<<"Unknown intensity code", intensity>>>>

WeatherText(weather) ==
    IF HasMarker(weather, "<NoWx>") THEN <<>>
    ELSE IF InTable(weather, DEFS_wx.weather)
    THEN Lookup(weather, DEFS_wx.weather) \o SP
    ELSE <<>>

WeatherWarning(weather) ==
    IF HasMarker(weather, "<NoWx>") \/ InTable(weather, DEFS_wx.weather)
    THEN <<>> ELSE <<<<"Unknown weather code", weather>>>>

\* ndfd.py:652-664, one attribute
Skipped(attribute) ==
    attribute = <<>> \/ HasMarker(attribute, "<None>")
        \/ HasMarker(attribute, "Mention")

AttributeText(attribute) ==
    IF Skipped(attribute) \/ attribute = <<"Primary">> \/ attribute = <<"OR">>
    THEN <<>>
    ELSE IF InTable(attribute, DEFS_wx.hazards)
    THEN w("with") \o SP \o Lookup(attribute, DEFS_wx.hazards) \o SP
    ELSE IF InTable(attribute, DEFS_wx.attributes)
    THEN Lookup(attribute, DEFS_wx.attributes) \o SP
    ELSE <<>>

AttributeWarning(attribute) ==
    IF Skipped(attribute) \/ attribute = <<"Primary">> \/ attribute = <<"OR">>
           \/ InTable(attribute, DEFS_wx.hazards)
           \/ InTable(attribute, DEFS_wx.attributes)
    THEN <<>> ELSE <<<<"Unknown attribute code", attribute>>>>

\* ndfd.py:651-664, the loop over the attributes from attribute k on
RECURSIVE AttributesText(_, _)
AttributesText(attributes, k) ==
    IF k > Len(attributes) THEN <<>>
    ELSE AttributeText(attributes[k]) \o AttributesText(attributes, k + 1)

RECURSIVE AttributesWarnings(_, _)
AttributesWarnings(attributes, k) ==
    IF k > Len(attributes) THEN <<>>
    ELSE AttributeWarning(attributes[k]) \o AttributesWarnings(attributes, k + 1)

\* a marker attribute sets its flag unless the attribute is skipped
Marked(attributes, marker) ==
    \E k \in DOMAIN attributes :
        ~Skipped(attributes[k]) /\ attributes[k] = <<marker>>

\* ndfd.py:678-685, the visibility of an event
VisOf(vis) ==
    IF HasMarker(vis, "<NoVis>") THEN NaN
    ELSE IF InTable(vis, DEFS_wx.visibility)
    THEN Lookup(vis, DEFS_wx.visibility)
    ELSE NaN

VisWarning(vis) ==
    IF HasMarker(vis, "<NoVis>") \/ InTable(vis, DEFS_wx.visibility)
    THEN <<>> ELSE <<<<"Unknown visibility code", vis>>>>

\* ndfd.py:610-664, the text ws of an event and its flags
EventOf(word) ==
    LET entries    == Split(word, ":")
        attributes == Split(entries[5], ",")
    IN  [ws      |-> CoverageText(entries[1]) \o IntensityText(entries[3])
                        \o WeatherText(entries[2])
                        \o (IF Likely(entries[1]) THEN w("likely") \o SP
                            ELSE <<>>)
                        \o AttributesText(attributes, 1),
         prepend |-> Marked(attributes, "Primary"),
         or      |-> Marked(attributes, "OR"),
         vis     |-> VisOf(entries[4]),
         stderr  |-> CoverageWarning(entries[1]) \o IntensityWarning(entries[3])
                        \o WeatherWarning(entries[2])
                        \o AttributesWarnings(attributes, 1)
                        \o VisWarning(entries[4])]

\* ndfd.py:666-676
JoinEventAppendOnly(weather_string, ev) ==
    IF Len(weather_string) = 0 THEN ev.ws
    ELSE IF ev.or THEN weather_string \o w("or") \o SP \o Lower(ev.ws)
    ELSE weather_string \o w("and") \o SP \o Lower(ev.ws)

JoinEvent(weather_string, ev) ==
    IF Len(weather_string) = 0 THEN ev.ws
    ELSE IF ev.prepend /\ ev.or
    THEN ev.ws \o w("or") \o SP \o Lower(weather_string)
    ELSE IF ev.prepend THEN ev.ws \o w("and") \o SP \o Lower(weather_string)
    ELSE IF ev.or THEN weather_string \o w("or") \o SP \o Lower(ev.ws)
    ELSE weather_string \o w("and") \o SP \o Lower(ev.ws)

\* ndfd.py:687-690
MinVisibilityLast(visibility, vis) == IF ~isnan(vis) THEN vis ELSE visibility

MinVisibility(visibility, vis) ==
    IF ~isnan(vis) /\ isnan(visibility) THEN vis
    ELSE IF ~isnan(vis) /\ FloatLess(vis, visibility) THEN vis
    ELSE visibility

\* ndfd.py:609-690, the loop over the events from event k on
RECURSIVE ParseWeatherLoop(_, _, _)
ParseWeatherLoop(words, k, st) ==
    IF k > Len(words) THEN st
    ELSE IF Len(Split(words[k], ":")) < 5
    THEN [st EXCEPT !.status = "IndexError"]
    ELSE LET ev == EventOf(words[k])
         IN  ParseWeatherLoop(words, k + 1,
                 [st EXCEPT !.weather_string = JoinEvent(@, ev),
                            !.visibility = MinVisibility(@, ev.vis),
                            !.stderr = @ \o ev.stderr])

\* ndfd.py:692-695
FinishWeather(weather_string) ==
    IF Len(weather_string) = 0 THEN <<<<"<NoWx>", "">>>>
    ELSE Capitalize(Strip(weather_string))

\* parse_weather_string(wx_string), ndfd.py:590-697
parse_weather_string(wx_string) ==
    LET st == ParseWeatherLoop(Split(wx_string, "^"), 1,
                  [status |-> "ok", weather_string |-> <<>>,
                   visibility |-> NaN, stderr |-> <<>>])
    IN  IF st.status # "ok"
        THEN [status |-> st.status, weather_string |-> <<>>,
              visibility |-> NaN, stderr |-> st.stderr]
        ELSE [st EXCEPT !.weather_string = FinishWeather(@)]

\* the events the weather strings are made of
SampleEvents ==
    {<<"Lkly", ":", "A", ":", "-", ":", "0SM", ":", "LgA">>,
     <<"Sct", ":", "SW", ":", "-", ":", "<NoVis>", ":">>,
     <<"<NoCov>", ":", "<NoWx>", ":", "<NoInten>", ":", "<NoVis>", ":">>,
     <<"Sct", ":", "A", ":", "+", ":", "2SM", ":", "Primary">>,
     <<"Sct", ":", "A", ":", "+", ":", "1SM", ":", "OR", ",", "OLA">>,
     <<"Sct", ":", "SW", ":", "-", ":", "2SM", ":", "LgA", ",", "Primary", ",", "OR">>,
     <<"Wrong", ":", "A", ":", "Wrong", ":", "Wrong", ":", "Wrong">>,
     <<"Wrong", ":", "Wrong", ":", "Wrong", ":", "1SM", ":", "Wrong", ",",
       "Primary", ",", "OR", ",", "Mention">>,
     <<"<NoCov>", ":", "<NoWx>", ":", "<NoInten>", ":", "2SM", ":", "Primary">>,
     <<"Sct", ":", "A", ":", "-", ":", "1SM">>}

\* "^".join(events)
RECURSIVE JoinWith(_, _)
JoinWith(events, sep) ==
    IF Len(events) = 0 THEN <<>>
    ELSE IF Len(events) = 1 THEN events[1]
    ELSE events[1] \o <<sep>> \o JoinWith(Tail(events), sep)

\* the strings of 1 to MaxEvents events
SampleStrings(events) ==
    {JoinWith(seq, "^") : seq \in UNION {[1..len -> events] : len \in 1..MaxEvents}}

\* the state before a call op(arg) of a function of its argument only
PureInit(op, args) ==
    /\ clock = DateTime(1, 0, 5, 0, 0)
    /\ ticks = 0
    /\ glft = NoGlft
    /\ NDFD_TMP = NDFD_TMP_DEFAULT
    /\ NDFD_LOCAL_SERVER = None
    /\ NDFD_LOCAL_SERVER_IS_DIR = FALSE
    /\ dirs = {}
    /\ files = {}
    /\ call = NoCall
    /\ fa = NoFa
    /\ procs = NoProcs
    /\ \E arg \in args : pf = [op |-> op, pc |-> "call", arg |-> arg]

WeatherInit == PureInit("parse_weather_string", SampleStrings(SampleEvents))

\* parse_weather_string(wx_string)
ParseWeatherString ==
    /\ pf.op = "parse_weather_string"
    /\ pf.pc = "call"
    /\ pf' = [op |-> pf.op, pc |-> "done", arg |-> pf.arg,
              result |-> parse_weather_string(pf.arg)]
    /\ UNCHANGED <<clock, ticks, glft, NDFD_TMP, NDFD_LOCAL_SERVER,
                   NDFD_LOCAL_SERVER_IS_DIR, dirs, files, call, fa, procs>>

\* the weather translator
SpecWeather == WeatherInit /\ [][ParseWeatherString]_vars

\* ndfd.py:721-735, the text and the warnings of one event
AdvisoryText(word) ==
    LET entries == Split(word, ".")
    IN  (IF InTable(entries[1], DEFS_wwa.hazards)
         THEN Lookup(entries[1], DEFS_wwa.hazards) \o SP ELSE <<>>)
        \o (IF InTable(entries[2], DEFS_wwa.advisories)
            THEN Lookup(entries[2], DEFS_wwa.advisories) \o NL ELSE <<>>)

AdvisoryWarnings(word) ==
    LET entries == Split(word, ".")
    IN  (IF InTable(entries[1], DEFS_wwa.hazards) THEN <<>>
         ELSE <<<<"Unknown hazard code", entries[1]>>>>)
        \o (IF InTable(entries[2], DEFS_wwa.advisories) THEN <<>>
            ELSE <<<<"Unknown advisory code", entries[2]>>>>)

\* ndfd.py:717-735, the loop over the events from event k on
RECURSIVE ParseAdvisoryLoop(_, _, _)
ParseAdvisoryLoop(words, k, st) ==
    IF k > Len(words) THEN st
    ELSE IF HasMarker(words[k], "<None>")
    THEN ParseAdvisoryLoop(words, k + 1, st)
    ELSE IF Len(Split(words[k], ".")) < 2
    THEN [st EXCEPT !.status = "IndexError"]
    ELSE ParseAdvisoryLoop(words, k + 1,
             [st EXCEPT !.advisory_string = @ \o AdvisoryText(words[k]),
                        !.stderr = @ \o AdvisoryWarnings(words[k])])

\* ndfd.py:737-740
FinishAdvisory(advisory_string) ==
    IF Len(advisory_string) = 0 THEN <<<<"<None>", "">>>>
    ELSE Title(Strip(advisory_string))

\* parse_advisory_string(wwa_string), ndfd.py:700-742
parse_advisory_string(wwa_string) ==
    LET st == ParseAdvisoryLoop(Split(wwa_string, "^"), 1,
                  [status |-> "ok", advisory_string |-> <<>>, stderr |-> <<>>])
    IN  IF st.status # "ok"
        THEN [status |-> st.status, advisory_string |-> <<>>,
              stderr |-> st.stderr]
        ELSE [st EXCEPT !.advisory_string = FinishAdvisory(@)]

\* the events the advisory strings are made of
SampleAdvisories ==
    {<<"AF", ".", "W">>, <<"WI", ".", "Y">>, <<"WI", ".", "W">>,
     <<"XX", ".", "X">>, <<"AF", ".", "X">>, <<"XX", ".", "W">>,
     <<"<None>">>, <<"AF">>}

AdvisoryInit == PureInit("parse_advisory_string", SampleStrings(SampleAdvisories))

\* parse_advisory_string(wwa_string)
ParseAdvisoryString ==
    /\ pf.op = "parse_advisory_string"
    /\ pf.pc = "call"
    /\ pf' = [op |-> pf.op, pc |-> "done", arg |-> pf.arg,
              result |-> parse_advisory_string(pf.arg)]
    /\ UNCHANGED <<clock, ticks, glft, NDFD_TMP, NDFD_LOCAL_SERVER,
                   NDFD_LOCAL_SERVER_IS_DIR, dirs, files, call, fa, procs>>

\* the advisory translator
SpecAdvisory == AdvisoryInit /\ [][ParseAdvisoryString]_vars

-----------------------------------------------------------------------------
(* get_nearest_grid_point on its own *)

\* the messages looked up: those of the files and the elevation message
NearestMessages ==
    {FileMessages[g][k] : g \in {"004-007", "001-003"}, k \in 1..2}
    \cup {FileMessages["008-450"][1], ElevationMessage}

\* <<lon, lat>> of the query points: with a spacing of 2 an odd planar
\* coordinate lies half way between two cells
NearestPoints == {<<lon, lat>> : lon \in {-5, -1, 1, 3, 4, 5}, lat \in {-5, 1, 2}}

NearestArguments ==
    {[grb |-> grb, lat |-> point[2], lon |-> point[1],
      projparams |-> projparams, py |-> py] :
        grb \in NearestMessages, point \in NearestPoints,
        projparams \in {NoProj, 1, 2}, py \in Pythons}

NearestInit == PureInit("get_nearest_grid_point", NearestArguments)

\* get_nearest_grid_point(grb, lat, lon, projparams)
GetNearestGridPoint ==
    /\ pf.op = "get_nearest_grid_point"
    /\ pf.pc = "call"
    /\ pf' = [op |-> pf.op, pc |-> "done", arg |-> pf.arg,
              result |-> get_nearest_grid_point(pf.arg.grb, pf.arg.lat,
                             pf.arg.lon, pf.arg.projparams, pf.arg.py)]
    /\ UNCHANGED <<clock, ticks, glft, NDFD_TMP, NDFD_LOCAL_SERVER,
                   NDFD_LOCAL_SERVER_IS_DIR, dirs, files, call, fa, procs>>

\* the nearest grid point of a message
SpecNearest == NearestInit /\ [][GetNearestGridPoint]_vars

-----------------------------------------------------------------------------
(* the valid times of get_forecast_analysis *)

\* the time of the call: the cycles of 23:00 the day before, 00:00 and 01:00
CallTimes ==
    {DateTime(1, 0, 5, 0, 0), DateTime(1, 0, 35, 0, 0), DateTime(1, 1, 35, 0, 0)}

WindowSteps == {1, 2, 3}

MinTimes == {NoTime, DateTime(1, 2, 0, 0, 0), DateTime(1, 2, 30, 0, 0)}

MaxTimes == {NoTime, DateTime(1, 2, 0, 0, 0), DateTime(1, 3, 0, 0, 0)}

\* before a call get_forecast_analysis("apt", 1, 2, time_step=.., min_time=..,
\* max_time=.., area="conus") on an empty cache
WindowInit ==
    /\ clock \in CallTimes
    /\ ticks = 0
    /\ glft = NoGlft
    /\ NDFD_TMP = NDFD_TMP_DEFAULT
    /\ NDFD_LOCAL_SERVER = None
    /\ NDFD_LOCAL_SERVER_IS_DIR = FALSE
    /\ dirs = {}
    /\ files = {}
    /\ call = NoCall
    /\ fa = NoFa
    /\ procs = NoProcs
    /\ pf \in {[op |-> "get_forecast_analysis", pc |-> "call",
                arg |-> [time_step |-> time_step, min_time |-> min_time,
                         max_time |-> max_time]] :
                  time_step \in WindowSteps, min_time \in MinTimes,
                  max_time \in MaxTimes}

\* the call, with a source that serves every file asked of it
GetForecastAnalysisWindow ==
    /\ pf.op = "get_forecast_analysis"
    /\ pf.pc = "call"
    /\ \E r \in {get_forecast_analysis(dirs, files, "apt", 1, 2, 0,
                     pf.arg.time_step, FALSE, pf.arg.min_time, pf.arg.max_time,
                     "conus", 2, [k \in 1..3 |-> TRUE], TRUE)} :
          /\ dirs' = r.dirs
          /\ files' = r.files
          /\ pf' = [op |-> pf.op, pc |-> "done", arg |-> pf.arg,
                    result |-> [status |-> r.status,
                                forecastTime |-> r.analysis.forecastTime,
                                valid_times |-> r.valid_times,
                                forecasts |-> r.forecasts,
                                analysis |-> r.analysis]]
    /\ UNCHANGED <<clock, ticks, glft, NDFD_TMP, NDFD_LOCAL_SERVER,
                   NDFD_LOCAL_SERVER_IS_DIR, call, fa, procs>>

\* forecast analyses at several times of day with several windows
SpecWindow == WindowInit /\ [][GetForecastAnalysisWindow]_vars

-----------------------------------------------------------------------------
(* get_latest_forecast_time, statement by statement: the clock may advance  *)
(* between its two utcnow() calls                                           *)

Times ==
    {DateTime(o, h, m, sec, us) :
        o \in 1..MaxDay, h \in 0..23, m \in 0..59, sec \in {0, 59},
        us \in {0, 999999}}

\* ndfd.py:156-157, and line 159 when the minute is outside the buffer
GlftRead ==
    /\ glft.pc = "idle"
    /\ glft' = IF InBuffer(clock)
               THEN [glft EXCEPT !.pc = "reread", !.first = clock]
               ELSE [glft EXCEPT !.pc = "done", !.first = clock,
                                 !.result = LatestForecastTime(clock, clock)]
    /\ UNCHANGED <<clock, ticks, NDFD_TMP, NDFD_LOCAL_SERVER,
                   NDFD_LOCAL_SERVER_IS_DIR, dirs, files, call, fa,
                   procs, pf>>

\* a minute passes between the two statements
GlftDrift ==
    /\ glft.pc = "reread"
    /\ glft.drift < MaxClockDrift
    /\ clock' = AddMinutes(clock, 1)
    /\ glft' = [glft EXCEPT !.drift = @ + 1]
    /\ UNCHANGED <<ticks, NDFD_TMP, NDFD_LOCAL_SERVER,
                   NDFD_LOCAL_SERVER_IS_DIR, dirs, files, call, fa,
                   procs, pf>>

\* ndfd.py:158-159
GlftReread ==
    /\ glft.pc = "reread"
    /\ glft' = [glft EXCEPT !.pc = "done",
                            !.result = LatestForecastTime(glft.first, clock)]
    /\ UNCHANGED <<clock, ticks, NDFD_TMP, NDFD_LOCAL_SERVER,
                   NDFD_LOCAL_SERVER_IS_DIR, dirs, files, call, fa,
                   procs, pf>>

TimeInit ==
    /\ clock \in Times
    /\ ticks = 0
    /\ glft = NoGlft
    /\ NDFD_TMP = NDFD_TMP_DEFAULT
    /\ NDFD_LOCAL_SERVER = None
    /\ NDFD_LOCAL_SERVER_IS_DIR = FALSE
    /\ dirs = {}
    /\ files = {}
    /\ call = NoCall
    /\ fa = NoFa
    /\ procs = NoProcs
    /\ pf = NoPf

TimeNext == GlftRead \/ GlftDrift \/ GlftReread

SpecTime == TimeInit /\ [][TimeNext]_vars

-----------------------------------------------------------------------------
(* C1 - C7 *)

\* C1: get_latest_forecast_time returns the wall-clock time truncated to the
\* hour (minute, second, microsecond 0), one hour earlier if and only if the
\* minute-of-hour is at most CACHE_SERVER_BUFFER_MIN; the roll-back crosses
\* day boundaries.  Hours are counted from day 0, so that the hour before
\* 00:00 of a day is 23:00 of the day before.
C1_ForecastTimeRollsBackInBuffer ==
    glft.pc = "done" =>
        /\ glft.result.minute = 0
        /\ glft.result.second = 0
        /\ glft.result.microsecond = 0
        /\ glft.result.hour \in 0..23
        /\ glft.result.ord * 24 + glft.result.hour =
              glft.first.ord * 24 + glft.first.hour
                  - (IF glft.first.minute <= 20 THEN 1 ELSE 0)

\* 00:05 of day 1 has given 23:00 of day 0
C1_Witness ==
    /\ glft.pc = "done"
    /\ glft.first.ord = 1 /\ glft.first.hour = 0 /\ glft.first.minute = 5
    /\ glft.result.ord = 0 /\ glft.result.hour = 23

\* a step that is a get_variable call
IsGetVariableStep == clock' = clock /\ call'.op = "get_variable"

\* C2: of two successive successful get_variable(var, area) calls within one
\* forecast cycle, the second fetches nothing and returns the paths of the
\* first.
C2_SecondCallFetchesNothing ==
    [][(/\ IsGetVariableStep
        /\ call.op = "get_variable" /\ call.status = "ok"
        /\ call'.status = "ok"
        /\ call'.var = call.var /\ call'.area = call.area
        /\ call'.cycle = call.cycle)
       => (call'.fetched = <<>> /\ call'.result = call.result)]_vars

\* a successful call that found both files of the variable cached
C2_Witness ==
    /\ call.op = "get_variable" /\ call.status = "ok"
    /\ call.fetched = <<>> /\ Len(call.result) = 2

\* the groups of a region that contain a variable
GroupsWith(var, area) ==
    {k \in 1..Len(DEFS_vars[area]) : var \in DEFS_vars[area][k].vars}

\* <cache-root>/<cycle>/DC.ndfd/AR.<area>/VP.<group>/ds.<var>.bin, resolved
CyclePath(root, cycle, area, vp, var) ==
    Resolve(root) \o <<cycle, <<"DC.ndfd">>, <<"AR.", area>>, <<"VP.", vp>>,
                       <<"ds.", var, ".bin">>>>

\* C3: a successful get_variable returns exactly one path per group of the
\* region that contains the variable (none, and no fetch, when no group does),
\* each the path <cache-root>/<cycle>/DC.ndfd/AR.<area>/VP.<group>/ds.<var>.bin
\* of the current cycle, beneath the configured cache root.
C3_PathsBeneathCacheRoot ==
    [][(IsGetVariableStep /\ call'.status = "ok") =>
        LET groups == GroupsWith(call'.var, call'.area)
            cycle  == StrfTime(get_latest_forecast_time)
        IN  /\ Len(call'.result) = Cardinality(groups)
            /\ groups = {} => call'.fetched = <<>>
            /\ {Resolve(call'.result[i]) : i \in DOMAIN call'.result} =
                  {CyclePath(NDFD_TMP, cycle, call'.area,
                             DEFS_vars[call'.area][k].vp, call'.var) :
                       k \in groups}
            /\ \A i \in DOMAIN call'.result :
                  /\ IsPrefix(Resolve(NDFD_TMP), Resolve(call'.result[i]))
                  /\ Len(Resolve(call'.result[i])) = Len(Resolve(NDFD_TMP)) + 5]_vars

\* C4: get_variable attempts at most one fetch per file and call; it raises
\* RuntimeError exactly when a file is absent after its fetch attempt, and
\* otherwise every returned path names an existing file.
C4_OneFetchThenCheck ==
    call.op = "get_variable" =>
        /\ \A i, j \in DOMAIN call.fetched :
              i # j => call.fetched[i].local # call.fetched[j].local
        /\ call.status = "RuntimeError" <=>
              \E i \in DOMAIN call.fetched : ~isfile(files, call.fetched[i].local)
        /\ call.status = "ok" =>
              \A i \in DOMAIN call.result : isfile(files, call.result[i])

\* the first file was fetched, the second fetch wrote nothing, the call raised
C4_Witness ==
    /\ call.op = "get_variable" /\ call.status = "RuntimeError"
    /\ Len(call.fetched) = 2
    /\ call.fetched[1].wrote /\ ~call.fetched[2].wrote

\* the cycles of the wall-clock times of the cache specification
CycleNames ==
    {StrfTime(LatestForecastTime(t, t)) :
        t \in {AddMinutes(DateTime(1, 0, 5, 0, 0), 30 * k) : k \in 0..MaxTicks}}

\* C5: after any sequence of get_variable calls the cache root holds
\* cycle-keyed data of the cycle of the most recent call only, fetched in that
\* cycle; no call fails because the old tree could not be discarded.
C5_OnlyCurrentCycleCached ==
    call.op = "get_variable" =>
        /\ \A f \in files, c \in CycleNames :
              IsPrefix(Resolve(NDFD_TMP \o c \o <<SEP>>), f.path) =>
                  (c = call.cycle /\ f.at = call.cycle)
        /\ call.status \in {"ok", "ValueError", "RuntimeError"}

\* C6 as stated: get_variable with an unknown region raises ValueError, fetches
\* nothing and leaves the directories and files on disk as they were.
C6_InvalidRegionLeavesCacheUntouched ==
    [][(IsGetVariableStep /\ call'.area \notin DOMAIN DEFS_vars) =>
        /\ call'.status = "ValueError"
        /\ call'.fetched = <<>>
        /\ dirs' = dirs
        /\ files' = files]_vars

\* C6 as amended: get_variable with an unknown region raises ValueError,
\* fetches nothing and creates no file; it leaves the disk as it was when the
\* directory of the current cycle exists, and otherwise it has rotated the
\* cache before it fails: the directory of the current cycle exists afterwards.
C6_InvalidRegionAfterRotation ==
    [][(IsGetVariableStep /\ call'.area \notin DOMAIN DEFS_vars) =>
        LET dir_time == NDFD_TMP \o StrfTime(get_latest_forecast_time) \o <<SEP>>
        IN  /\ call'.status = "ValueError"
            /\ call'.fetched = <<>>
            /\ files' \subseteq files
            /\ isdir(dirs, dir_time) => (dirs' = dirs /\ files' = files)
            /\ isdir(dirs', dir_time)]_vars

\* a call with an unknown region has rotated the cache and raised
C6_Witness ==
    /\ call.op = "get_variable" /\ call.status = "ValueError"
    /\ ~call.had_dir
    /\ isdir(dirs, call.dir_time)

\* a step that is a get_elevation_variable call
IsGetElevationStep == clock' = clock /\ call'.op = "get_elevation_variable"

\* C7: get_elevation_variable raises ValueError for 'puertori' and RuntimeError
\* for another region when no local source is set, in both cases without a
\* fetch or a new directory; it never fetches from the public source; its
\* result is <cache-root>/static/DC.ndfd/AR.<area>/ds.elev.bin.
C7_ElevationErrorsAndStaticPath ==
    [][IsGetElevationStep =>
        /\ call'.area = "puertori" =>
              /\ call'.status = "ValueError"
              /\ call'.fetched = <<>> /\ dirs' = dirs /\ files' = files
        /\ (call'.area # "puertori" /\ NDFD_LOCAL_SERVER = None) =>
              /\ call'.status = "RuntimeError"
              /\ call'.msg = "Local cache server must provide elevation data"
              /\ call'.fetched = <<>> /\ dirs' = dirs /\ files' = files
        /\ \A i \in DOMAIN call'.fetched :
              ~IsPrefix(NDFD_REMOTE_SERVER, call'.fetched[i].remote)
        /\ call'.status = "ok" =>
              /\ Len(call'.result) = 1
              /\ Resolve(call'.result[1]) =
                    Resolve(NDFD_TMP) \o <<<<"static">>, <<"DC.ndfd">>,
                                           <<"AR.", call'.area>>,
                                           <<"ds.", "elev", ".bin">>>>]_vars


\* a step that is one call of get_forecast_analysis
IsAnalysisStep == fa.op = "none" /\ fa'.op = "get_forecast_analysis"

\* the region a call works on: the given one, or the smallest grid around the
\* point when none is given
RegionOf(f) == IF f.area = NoArea THEN get_smallest_grid(f.lat, f.lon) ELSE f.area

\* the variable is published in some group of the region
Published(var, area) ==
    \E k \in DOMAIN DEFS_vars[area] : var \in DEFS_vars[area][k].vars

\* C8: get_forecast_analysis fails with an error when n < 0, when
\* time_step < 1, when the region is unknown or when the variable is not
\* published in the region; in each of these cases it fails before any cache
\* access: nothing is fetched and no directory or file of the cache is created
\* or removed.  The check of n comes first, the check of time_step before
\* those of the region and the variable.
C8_InvalidArgumentsFailBeforeCache ==
    [][IsAnalysisStep =>
          LET f        == fa'
              bad_n    == f.n < 0
              bad_step == f.time_step < 1
              bad_area == RegionOf(f) \notin DOMAIN DEFS_vars
              bad_var  == ~bad_area /\ ~Published(f.var, RegionOf(f))
          IN  /\ (bad_n \/ bad_step \/ bad_area \/ bad_var) =>
                    /\ f.status = "ValueError"
                    /\ ~f.cache_access
                    /\ f.fetched = <<>>
                    /\ dirs' = dirs
                    /\ files' = files
              /\ bad_n => f.msg = "n must be >= 0"
              /\ (~bad_n /\ bad_step) => f.msg = "time_step must be >= 1"
              /\ (~bad_n /\ ~bad_step /\ bad_area) => f.msg = "Invalid Area."
              /\ (~bad_n /\ ~bad_step /\ bad_var) =>
                    f.msg = "Variable not available in area"
              /\ ~(bad_n \/ bad_step \/ bad_area \/ bad_var) => f.cache_access
      ]_vars

\* a call with a bad time_step and an unknown region, over a filled cache
C8_Witness ==
    /\ fa.op = "get_forecast_analysis"
    /\ fa.n >= 0
    /\ fa.time_step < 1
    /\ fa.area = "wrong"
    /\ fa.status = "ValueError"
    /\ fa.msg = "time_step must be >= 1"
    /\ files # {}

\* C9: whenever a cell of the window [x-n, x+n] x [y-n, y+n] around the
\* nearest cell lies outside 0..W-1 x 0..H-1, get_forecast_analysis fails; a
\* result it returns holds only values read from the cells addressed (no
\* clamping, no wrap-around to the opposite edge).
C9_WindowWithinArrayOrError ==
    (fa.op = "get_forecast_analysis" /\ fa.status = "ok") =>
        \A k \in DOMAIN fa.reads :
            LET r == fa.reads[k]
            IN  \A o \in DOMAIN r.offsets :
                    LET col == r.x + r.offsets[o][1]
                        row == r.y + r.offsets[o][2]
                    IN  /\ col \in 0..(r.W - 1)
                        /\ row \in 0..(r.H - 1)
                        /\ r.cells[o] = [row |-> row, col |-> col]
                        /\ r.vals[o] = r.base + row * r.W + col

\* the samples a per-hour record was built from: those of the last message
\* read for the hour
SamplesOf(t) ==
    LET last == CHOOSE k \in DOMAIN fa.reads :
                    /\ fa.reads[k].t = t
                    /\ \A j \in DOMAIN fa.reads : fa.reads[j].t = t => j <= k
    IN  fa.reads[last].vals

StatisticsKeys == {"min", "max", "mean", "median", "stdDev", "sum"}

\* C10: in every per-hour record of a result, with n = 0 one sample is
\* collected and the record holds 'nearest' only; with n >= 1 (2n+1)^2
\* samples are collected, the record holds points = (2n+1)^2 with min, max,
\* mean, median, stdDev and sum over those samples, and 'nearest' is the
\* sample at window offset (0, 0).
C10_ForecastRecordShape ==
    (fa.op = "get_forecast_analysis" /\ fa.status = "ok") =>
        \A t \in DOMAIN fa.forecasts :
            LET rec   == fa.forecasts[t]
                vals  == SamplesOf(t)
                side  == 2 * fa.n + 1
            IN  /\ Len(vals) = side * side
                /\ rec["nearest"] = vals[fa.n * side + fa.n + 1]
                /\ fa.n = 0 => DOMAIN rec = {"nearest"}
                /\ fa.n >= 1 =>
                      /\ DOMAIN rec = {"nearest", "points"} \cup StatisticsKeys
                      /\ rec["points"] = side * side
                      /\ \E k \in DOMAIN vals : rec["min"] = <<vals[k], 1>>
                      /\ \A k \in DOMAIN vals : rec["min"][1] <= vals[k]
                      /\ \E k \in DOMAIN vals : rec["max"] = <<vals[k], 1>>
                      /\ \A k \in DOMAIN vals : rec["max"][1] >= vals[k]
                      /\ rec["sum"] = <<SumSeq(vals), 1>>
                      /\ rec["mean"] = <<SumSeq(vals), side * side>>
                      /\ rec["median"] = median(vals)
                      /\ rec["stdDev"] = std_dev(vals)

\* a result of a call with n = 1 whose windows lie within the arrays
C10_Witness ==
    /\ fa.op = "get_forecast_analysis"
    /\ fa.status = "ok"
    /\ fa.n = 1
    /\ Len(fa.reads) >= 2
    /\ \A k \in DOMAIN fa.reads :
          /\ fa.reads[k].x \in 1..(fa.reads[k].W - 2)
          /\ fa.reads[k].y \in 1..(fa.reads[k].H - 2)


-----------------------------------------------------------------------------
(* C11 - C20 *)

\* C11: for any interleaving of two processes that each call get_variable
\* for the same variable, region and cycle on the same cache root, both
\* calls complete without error and every path each of them returns names an
\* existing file holding that cycle's content.
C11_RacingCallsBothSucceed ==
    \A p \in Procs :
        procs[p].pc = "done" =>
            /\ procs[p].status = "ok"
            /\ \A k \in DOMAIN procs[p].gribs :
                  [path |-> Resolve(procs[p].gribs[k]), at |-> procs[p].cycle]
                      \in files

\* C12 as stated: a decoded line is kept as a code iff it has at least 4
\* characters and (at least 4 colon-separated fields, or a period, or the
\* placeholder '<None>'); the codes keep the order of their lines.
C12_KeptIffFourFields ==
    (pf.op = "unpack_string" /\ pf.pc = "done") =>
        pf.result = SelectSeq(pf.lines,
                        LAMBDA line :
                            /\ Len(line) >= 4
                            /\ \/ Count(line, Ord[":"]) + 1 >= 4
                               \/ Count(line, Ord["."]) >= 1
                               \/ Contains(line, Text(<<"<", "N", "o", "n", "e", ">">>)))

\* C12, amended: a decoded line is kept as a code iff it has at least 4
\* characters and (at least 4 colons, that is five colon-separated fields,
\* or a period, or the placeholder '<None>'); the codes keep the order of
\* their lines.
C12_KeptIffFourColons ==
    (pf.op = "unpack_string" /\ pf.pc = "done") =>
        pf.result = SelectSeq(pf.lines,
                        LAMBDA line :
                            /\ Len(line) >= 4
                            /\ \/ Count(line, Ord[":"]) >= 4
                               \/ Count(line, Ord["."]) >= 1
                               \/ Contains(line, Text(<<"<", "N", "o", "n", "e", ">">>)))

\* a text of two lines, the first with four fields (three colons) and
\* dropped, the second kept
C12_Witness ==
    /\ pf.op = "unpack_string"
    /\ pf.pc = "done"
    /\ Len(pf.lines) = 2
    /\ Count(pf.lines[1], Ord[":"]) = 3
    /\ Len(pf.lines[1]) >= 4
    /\ pf.result = <<pf.lines[2]>>

\* a finished call of parse_weather_string that did not raise
WeatherDone ==
    pf.op = "parse_weather_string" /\ pf.pc = "done" /\ pf.result.status = "ok"

\* the connector of an event: 'or' when it is marked OR, else 'and'
ConnectorOf(ev) == (IF ev.or THEN w("or") ELSE w("and")) \o SP

\* an event joined to a phrase: before it when marked Primary, else after it
Joined(phrase, ev) ==
    IF ev.prepend THEN ev.ws \o ConnectorOf(ev) \o Lower(phrase)
    ELSE phrase \o ConnectorOf(ev) \o Lower(ev.ws)

\* the events joined left to right, the first event seeding the phrase
RECURSIVE JoinedFromFirst(_, _, _)
JoinedFromFirst(words, k, phrase) ==
    IF k > Len(words) THEN phrase
    ELSE JoinedFromFirst(words, k + 1,
             IF k = 1 THEN EventOf(words[k]).ws
             ELSE Joined(phrase, EventOf(words[k])))

\* the events joined left to right, an event seeding the phrase when the
\* phrase is empty
RECURSIVE JoinedFromFirstText(_, _, _)
JoinedFromFirstText(words, k, phrase) ==
    IF k > Len(words) THEN phrase
    ELSE JoinedFromFirstText(words, k + 1,
             IF phrase = <<>> THEN EventOf(words[k]).ws
             ELSE Joined(phrase, EventOf(words[k])))

\* C13 as stated: the first event seeds the phrase; each later event marked
\* Primary is placed before the existing phrase as '<event> and <existing
\* lower-cased>' ('or' when marked OR), each later event not marked Primary
\* after it as '<existing> and <event lower-cased>' ('or' when marked OR).
C13_FirstEventSeeds ==
    WeatherDone =>
        pf.result.weather_string
            = FinishWeather(JoinedFromFirst(Split(pf.arg, "^"), 1, <<>>))

\* C13, amended: an event seeds the phrase while the phrase is empty (the
\* first event, and every event after events that contributed no text); an
\* event that finds a phrase is placed before it when marked Primary, as
\* '<event> and <existing lower-cased>', and after it otherwise, as
\* '<existing> and <event lower-cased>', with 'or' when marked OR; the markers
\* add no text.
C13_FirstTextSeeds ==
    WeatherDone =>
        pf.result.weather_string
            = FinishWeather(JoinedFromFirstText(Split(pf.arg, "^"), 1, <<>>))

\* two events with text, the second marked Primary and OR
C13_Witness ==
    /\ WeatherDone
    /\ Len(Split(pf.arg, "^")) = 2
    /\ LET first  == EventOf(Split(pf.arg, "^")[1])
           second == EventOf(Split(pf.arg, "^")[2])
       IN  /\ first.ws # <<>>
           /\ second.ws # <<>>
           /\ second.prepend
           /\ second.or
           /\ pf.result.weather_string
                  = Capitalize(Strip(second.ws \o w("or") \o SP \o first.ws))

\* the words of a phrase
WordsOf(text) == {text[k][1] : k \in {j \in DOMAIN text : text[j][2] # ""}}

\* the fields of event k of the argument
FieldsOf(k) == Split(Split(pf.arg, "^")[k], ":")

\* the codes of an event that are not recognised: neither a placeholder or
\* marker nor a key of the table of their field
UnrecognisedOf(k) ==
    LET f == FieldsOf(k)
        Report(name, code, known) == IF known THEN {} ELSE {<<name, code>>}
    IN  Report("Unknown coverage code", f[1],
               HasMarker(f[1], "<NoCov>") \/ HasMarker(f[1], "Lkly")
                   \/ InTable(f[1], DEFS_wx.coverage))
        \cup Report("Unknown weather code", f[2],
                    HasMarker(f[2], "<NoWx>") \/ InTable(f[2], DEFS_wx.weather))
        \cup Report("Unknown intensity code", f[3],
                    HasMarker(f[3], "<NoInten>")
                        \/ InTable(f[3], DEFS_wx.intensity))
        \cup Report("Unknown visibility code", f[4],
                    HasMarker(f[4], "<NoVis>")
                        \/ InTable(f[4], DEFS_wx.visibility))
        \cup UNION {Report("Unknown attribute code", a,
                           a = <<>> \/ HasMarker(a, "<None>")
                               \/ HasMarker(a, "Mention")
                               \/ a \in {<<"Primary">>, <<"OR">>}
                               \/ InTable(a, DEFS_wx.hazards)
                               \/ InTable(a, DEFS_wx.attributes)) :
                    a \in {Split(f[5], ",")[j] : j \in DOMAIN Split(f[5], ",")}}

\* the words the recognised fields of an event stand for
RecognisedWordsOf(k) ==
    LET f == FieldsOf(k)
        Words(code, placeholder, table) ==
            IF ~HasMarker(code, placeholder) /\ InTable(code, table)
            THEN WordsOf(Lookup(code, table)) ELSE {}
    IN  (IF HasMarker(f[1], "<NoCov>") THEN {}
         ELSE IF HasMarker(f[1], "Lkly") THEN {"likely"}
         ELSE Words(f[1], "<NoCov>", DEFS_wx.coverage))
        \cup Words(f[2], "<NoWx>", DEFS_wx.weather)
        \cup Words(f[3], "<NoInten>", DEFS_wx.intensity)
        \cup UNION {IF InTable(a, DEFS_wx.hazards)
                    THEN {"with"} \cup WordsOf(Lookup(a, DEFS_wx.hazards))
                    ELSE Words(a, "<None>", DEFS_wx.attributes) :
                    a \in {Split(f[5], ",")[j] : j \in DOMAIN Split(f[5], ",")}}

\* C14: for every weather code string whose events each have five
\* colon-separated fields, parse_weather_string returns without raising;
\* each unrecognised coverage, intensity, weather, visibility or attribute
\* code is reported on the diagnostic stream and contributes no text, while
\* the recognised fields of the same event still contribute theirs; the
\* phrase is '<NoWx>' exactly when no event contributes any text, and
\* otherwise is the trimmed, sentence-capitalised phrase.
C14_UnknownCodesAreReportedAndSkipped ==
    (/\ pf.op = "parse_weather_string"
     /\ pf.pc = "done"
     /\ \A k \in DOMAIN Split(pf.arg, "^") : Len(FieldsOf(k)) = 5) =>
        LET events == DOMAIN Split(pf.arg, "^")
            phrase == pf.result.weather_string
        IN  /\ pf.result.status = "ok"
            /\ {pf.result.stderr[j] : j \in DOMAIN pf.result.stderr}
                   = UNION {UnrecognisedOf(k) : k \in events}
            /\ Len(pf.result.stderr)
                   >= Cardinality(UNION {UnrecognisedOf(k) : k \in events})
            /\ (phrase = <<<<"<NoWx>", "">>>>)
                   <=> (\A k \in events : RecognisedWordsOf(k) = {})
            /\ phrase # <<<<"<NoWx>", "">>>> =>
                  /\ UNION {RecognisedWordsOf(k) : k \in events}
                         \subseteq WordsOf(phrase)
                  /\ WordsOf(phrase)
                         \subseteq UNION {RecognisedWordsOf(k) : k \in events}
                                       \cup {"and", "or"}
                  /\ phrase[1][2] = "Title"
                  /\ phrase[Len(phrase)][2] # ""
                  /\ \A j \in 2..Len(phrase) : phrase[j][2] \in {"", "lower"}

\* an event with an unrecognised coverage code and a recognised weather code
C14_Witness ==
    /\ WeatherDone
    /\ \E k \in DOMAIN Split(pf.arg, "^") :
          /\ Len(FieldsOf(k)) = 5
          /\ <<"Unknown coverage code", FieldsOf(k)[1]>> \in UnrecognisedOf(k)
          /\ InTable(FieldsOf(k)[2], DEFS_wx.weather)
          /\ WordsOf(Lookup(FieldsOf(k)[2], DEFS_wx.weather))
                 \subseteq WordsOf(pf.result.weather_string)
    /\ \E j \in DOMAIN pf.result.stderr :
          pf.result.stderr[j][1] = "Unknown coverage code"

\* the visibilities of the events whose visibility code is in the table
TableVisibilities ==
    {Lookup(FieldsOf(k)[4], DEFS_wx.visibility) :
        k \in {j \in DOMAIN Split(pf.arg, "^") :
                  InTable(FieldsOf(j)[4], DEFS_wx.visibility)}}

\* C15: the visibility returned by parse_weather_string is the minimum of the
\* visibilities of all events whose visibility code is in the visibility
\* table, whatever the order of the events, and is NaN exactly when every
\* event's visibility code is the '<NoVis>' placeholder or unrecognised.
C15_VisibilityIsMinimum ==
    WeatherDone =>
        /\ isnan(pf.result.visibility) <=> TableVisibilities = {}
        /\ ~isnan(pf.result.visibility) =>
              /\ pf.result.visibility \in TableVisibilities
              /\ \A v \in TableVisibilities : ~FloatLess(v, pf.result.visibility)

\* two events with visibilities in the table, the lower one first
C15_Witness ==
    /\ WeatherDone
    /\ Len(Split(pf.arg, "^")) = 2
    /\ InTable(FieldsOf(1)[4], DEFS_wx.visibility)
    /\ InTable(FieldsOf(2)[4], DEFS_wx.visibility)
    /\ FloatLess(Lookup(FieldsOf(1)[4], DEFS_wx.visibility),
                 Lookup(FieldsOf(2)[4], DEFS_wx.visibility))
    /\ pf.result.visibility = Lookup(FieldsOf(1)[4], DEFS_wx.visibility)

\* the events of the argument that contribute text, in event order: those
\* without '<None>' with a hazard code or an advisory code in its table
ContributingEvents ==
    SelectSeq(Split(pf.arg, "^"),
              LAMBDA word :
                  /\ ~HasMarker(word, "<None>")
                  /\ \/ InTable(Split(word, ".")[1], DEFS_wwa.hazards)
                     \/ InTable(Split(word, ".")[2], DEFS_wwa.advisories))

\* the codes of the events without '<None>' that are in no table
UnrecognisedAdvisoryCodes ==
    UNION {(IF InTable(Split(word, ".")[1], DEFS_wwa.hazards) THEN {}
            ELSE {<<"Unknown hazard code", Split(word, ".")[1]>>})
           \cup (IF InTable(Split(word, ".")[2], DEFS_wwa.advisories) THEN {}
                 ELSE {<<"Unknown advisory code", Split(word, ".")[2]>>}) :
           word \in {Split(pf.arg, "^")[k] :
                        k \in {j \in DOMAIN Split(pf.arg, "^") :
                                  ~HasMarker(Split(pf.arg, "^")[j], "<None>")}}}

\* the line of an event: its hazard, then its advisory level, title-cased
LineOf(word) ==
    Title(Strip(
        (IF InTable(Split(word, ".")[1], DEFS_wwa.hazards)
         THEN Lookup(Split(word, ".")[1], DEFS_wwa.hazards) \o SP ELSE <<>>)
        \o (IF InTable(Split(word, ".")[2], DEFS_wwa.advisories)
            THEN Lookup(Split(word, ".")[2], DEFS_wwa.advisories) ELSE <<>>)))

\* C16: parse_advisory_string resolves the hazard code and the advisory-level
\* code of each event independently and puts every event that contributes
\* text on its own line of the result, in event order (k contributing events
\* give k lines); an unrecognised code is reported and skipped without
\* raising, an event with '<None>' contributes nothing, the result is
\* '<None>' when nothing is contributed, and otherwise it is trimmed and
\* title-cased.
C16_OneLinePerContributingEvent ==
    (/\ pf.op = "parse_advisory_string"
     /\ pf.pc = "done"
     /\ \A k \in DOMAIN Split(pf.arg, "^") :
           \/ HasMarker(Split(pf.arg, "^")[k], "<None>")
           \/ Len(Split(Split(pf.arg, "^")[k], ".")) = 2) =>
        /\ pf.result.status = "ok"
        /\ {pf.result.stderr[j] : j \in DOMAIN pf.result.stderr}
               = UnrecognisedAdvisoryCodes
        /\ ContributingEvents = <<>> =>
              pf.result.advisory_string = <<<<"<None>", "">>>>
        /\ ContributingEvents # <<>> =>
              Split(pf.result.advisory_string, NL[1])
                  = [k \in DOMAIN ContributingEvents |->
                        LineOf(ContributingEvents[k])]

\* num / den for den > 0 rounded to the nearest integer, an exact half away
\* from zero
RoundHalfAway(num, den) ==
    IF num >= 0 THEN (2 * num + den) \div (2 * den)
    ELSE 0 - ((den - 2 * num) \div (2 * den))

\* the projection a lookup uses and the planar distance from the first grid
\* point of the message to the query point
NearestProj == IF pf.arg.projparams = NoProj THEN pf.arg.grb.projparams ELSE pf.arg.projparams

NearestDx == NearestProj * pf.arg.lon - NearestProj * pf.arg.grb.lon0

NearestDy == NearestProj * pf.arg.lat - NearestProj * pf.arg.grb.lat0

\* the cell spacing of the message, under either key convention
NearestSpacing ==
    IF "DxInMetres" \in DOMAIN pf.arg.grb.spacing
    THEN <<pf.arg.grb.spacing.DxInMetres, pf.arg.grb.spacing.DyInMetres>>
    ELSE <<pf.arg.grb.spacing.DiInMetres, pf.arg.grb.spacing.DjInMetres>>

\* C17: get_nearest_grid_point computes each index, on both axes, as (planar
\* coordinate of the query point minus planar coordinate of the first grid
\* point) divided by the cell spacing, rounded to the nearest integer with
\* exact halves away from zero; a negative index is returned as such.
C17_IndexRoundsHalfAwayFromZero ==
    (pf.op = "get_nearest_grid_point" /\ pf.pc = "done") =>
        /\ pf.result.x = RoundHalfAway(NearestDx, NearestSpacing[1])
        /\ pf.result.y = RoundHalfAway(NearestDy, NearestSpacing[2])

WindowDone ==
    pf.op = "get_forecast_analysis" /\ pf.pc = "done" /\ pf.result.status = "ok"

\* { c + h hours : h a multiple of time_step, 0 <= h < 250 } restricted to
\* min_time <= t <= max_time, each bound applied only when given
CandidateTimes(c, time_step, min_time, max_time) ==
    {t \in {AddMinutes(c, 60 * h) : h \in {i \in 0..249 : i % time_step = 0}} :
        /\ min_time = NoTime \/ ~DtLess(t, min_time)
        /\ max_time = NoTime \/ ~DtLess(max_time, t)}

\* the valid times of the messages of the files of the call: those of the
\* groups of the region that publish the variable
MessageTimes ==
    UNION {{FileMessages[DEFS_vars.conus[i].vp][k].vt :
               k \in DOMAIN FileMessages[DEFS_vars.conus[i].vp]} :
           i \in {j \in DOMAIN DEFS_vars.conus : "apt" \in DEFS_vars.conus[j].vars}}

\* the valid times built are the candidate times counted from c, and the
\* messages with these valid times are those that have a record
WindowFrom(c) ==
    /\ {pf.result.valid_times[k] : k \in DOMAIN pf.result.valid_times}
           = CandidateTimes(c, pf.arg.time_step, pf.arg.min_time, pf.arg.max_time)
    /\ DOMAIN pf.result.forecasts
           = MessageTimes \cap CandidateTimes(c, pf.arg.time_step,
                                              pf.arg.min_time, pf.arg.max_time)

\* C18 as stated: the candidate valid times of get_forecast_analysis are
\* exactly the times c + h hours, h a multiple of time_step below 250, within
\* the inclusive bounds given, where c is the forecast cycle timestamp; only
\* messages with a valid time in this set contribute.
C18_WindowFromCycleTimestamp == WindowDone => WindowFrom(pf.result.forecastTime)

\* C18 (amended): the same with c the start (00:00) of the day of the forecast
\* cycle timestamp; skipping the times before min_time and stopping at the
\* first time after max_time gives the same set as filtering.
C18_WindowFromCycleDay ==
    WindowDone => WindowFrom([pf.result.forecastTime EXCEPT !.hour = 0])

C18_Witness ==
    /\ WindowDone
    /\ pf.result.forecastTime.hour # 0
    /\ pf.arg.time_step = 2
    /\ pf.arg.min_time # NoTime
    /\ pf.arg.max_time # NoTime
    /\ DOMAIN pf.result.forecasts # {}
    /\ DOMAIN pf.result.forecasts # MessageTimes
    /\ WindowFrom([pf.result.forecastTime EXCEPT !.hour = 0])

HeaderFields == {"gridLat", "gridLon", "units", "deltaX", "deltaY", "distance"}

\* the messages of the files of a variable in a region, in the order the
\* files are opened and read, from group k on
RECURSIVE MessagesFrom(_, _, _)
MessagesFrom(var, area, k) ==
    IF k > Len(DEFS_vars[area]) THEN <<>>
    ELSE (IF var \in DEFS_vars[area][k].vars
          THEN FileMessages[DEFS_vars[area][k].vp] ELSE <<>>)
         \o MessagesFrom(var, area, k + 1)

\* those of them whose valid time is a candidate time of the call
MatchingMessages ==
    LET cand == CandidateTimes([fa.analysis.forecastTime EXCEPT !.hour = 0],
                               fa.time_step, fa.min_time, fa.max_time)
    IN  SelectSeq(MessagesFrom(fa.var, fa.resolved_area, 1),
                  LAMBDA grb : grb.vt \in cand)

\* the header fields as message grb gives them for the point of the call
HeaderOf(grb) ==
    LET loc == get_nearest_grid_point(grb, fa.lat, fa.lon, NoProj, fa.py)
    IN  [gridLat |-> loc.g_lat, gridLon |-> loc.g_lon,
         units |-> grb.parameterUnits,
         deltaX |-> grb.spacing[SpacingKeys(grb).x],
         deltaY |-> grb.spacing[SpacingKeys(grb).y],
         distance |-> <<"G.inv", fa.lon, fa.lat, loc.g_lon, loc.g_lat>>]

\* C19: across all files and messages processed by one get_forecast_analysis
\* call the header fields gridLat, gridLon, units, deltaX, deltaY and distance
\* are those of the first message whose valid time is in the candidate set:
\* no later message or file overwrites them, and without such a message they
\* are not set.
C19_HeaderFromFirstMatchingMessage ==
    (fa.op = "get_forecast_analysis" /\ fa.status = "ok") =>
        /\ MatchingMessages = <<>> => HeaderFields \cap DOMAIN fa.analysis = {}
        /\ MatchingMessages # <<>> =>
              \A field \in HeaderFields :
                  fa.analysis[field] = HeaderOf(MatchingMessages[1])[field]

\* a result from two files whose first message has no candidate time and
\* whose later matching messages would give another header
C19_Witness ==
    /\ fa.op = "get_forecast_analysis"
    /\ fa.status = "ok"
    /\ Len(MatchingMessages) >= 3
    /\ MessagesFrom(fa.var, fa.resolved_area, 1)[1] # MatchingMessages[1]
    /\ HeaderOf(MatchingMessages[2]).gridLat # HeaderOf(MatchingMessages[1]).gridLat
    /\ fa.analysis["gridLat"] = HeaderOf(MatchingMessages[1]).gridLat

\* the cell of message grb nearest to the point of the call, looked up with
\* the projection and the cell spacing of message first
CellWith(first, grb) ==
    LET p == first.projparams
    IN  <<Round(p * fa.lon - p * grb.lon0, first.spacing[SpacingKeys(first).x], fa.py),
          Round(p * fa.lat - p * grb.lat0, first.spacing[SpacingKeys(first).y], fa.py)>>

\* C20: in get_forecast_analysis the nearest-cell lookup of every matching
\* message after the first reuses the first matching message's projection and
\* cell spacing, so that all records of a result refer to the cell the header
\* describes, also when later messages or files carry another projection or
\* spacing.
C20_LookupsReuseFirstProjection ==
    (fa.op = "get_forecast_analysis" /\ fa.status = "ok") =>
        \A k \in DOMAIN fa.reads :
            /\ fa.reads[k].base = MatchingMessages[k].base
            /\ <<fa.reads[k].x, fa.reads[k].y>>
                   = CellWith(MatchingMessages[1], MatchingMessages[k])

\* the 'elevation' entry as the lookup made with the projection of message
\* grb gives it
ElevationOf(grb) ==
    LET e      == ElevationMessage
        eloc   == get_nearest_grid_point(e, fa.lat, fa.lon, grb.projparams, fa.py)
        offs   == Offsets(fa.n)
        e_vals == [k \in DOMAIN offs |->
                      CellValue(e, ReadCell(e, eloc.x, eloc.y, offs[k]))]
        centre == CHOOSE k \in DOMAIN offs : offs[k] = <<0, 0>>
    IN  ElevationRecord(e, e_vals, e_vals[centre])

\* the fetches of a call from the static elevation cache of the server
ElevationFetches ==
    {k \in DOMAIN fa.fetched : Contains(fa.fetched[k].remote, <<"static">>)}

\* C21: with elev=True one get_forecast_analysis call resolves and reads the
\* static elevation cache exactly once, for the first message whose valid time
\* is in the candidate set, with that message's projection; the 'elevation'
\* entry comes from that lookup only and no later message looks up again or
\* changes the entry.  With elev=False the elevation cache is never resolved
\* and the result has no 'elevation' entry.
C21_ElevationLookedUpOnce ==
    fa.op = "get_forecast_analysis" =>
        /\ ~fa.elev =>
              /\ fa.elev_lookups = 0
              /\ ElevationFetches = {}
              /\ fa.status = "ok" => "elevation" \notin DOMAIN fa.analysis
        /\ fa.elev => fa.elev_lookups <= 1
        /\ (fa.elev /\ fa.status = "ok" /\ MatchingMessages # <<>>) =>
              /\ fa.elev_lookups = 1
              /\ "elevation" \in DOMAIN fa.analysis
              /\ fa.analysis["elevation"] = ElevationOf(MatchingMessages[1])

\* a result with elevation from several matching messages, of which a later
\* one has another projection and would give another entry
C21_Witness ==
    /\ fa.op = "get_forecast_analysis"
    /\ fa.elev
    /\ fa.status = "ok"
    /\ Len(MatchingMessages) >= 3
    /\ ElevationFetches # {}
    /\ ElevationOf(MatchingMessages[2]) # ElevationOf(MatchingMessages[1])
    /\ fa.analysis["elevation"] = ElevationOf(MatchingMessages[1])

\* the keys every result is said to have, besides 'forecasts'
ResultKeys ==
    {"reqLat", "reqLon", "gridLat", "gridLon", "distance"} \cup StatisticsKeys

\* C22: every result of get_forecast_analysis has the same shape whatever the
\* inputs and the cache content: the requested coordinates, the resolved grid
\* coordinates, the distance to the nearest grid point, the per-hour records
\* and the six overall statistics, which are NaN when no value was collected.
C22_ResultShapeIsStable ==
    WindowDone =>
        /\ ResultKeys \subseteq DOMAIN pf.result.analysis
        /\ DOMAIN pf.result.forecasts = {} =>
              \A key \in StatisticsKeys : pf.result.analysis[key] = NaN

\* the files on disk that get_elevation_variable has fetched
StaticFiles(F) == {f \in F : f.at = <<"static">>}

\* C23: a static elevation file cached by get_elevation_variable is untouched
\* by a change of forecast cycle: a get_variable call that finds the directory
\* of the current cycle missing removes only the directories of earlier cycles
\* and leaves <cache-root>/static/... as it is, so that a later
\* get_elevation_variable for the region fetches nothing.
C23_RotationKeepsStaticFiles ==
    [][(IsGetVariableStep /\ ~call'.had_dir) =>
          StaticFiles(files') = StaticFiles(files)]_vars

\* the samples of the records of a result, hour after hour
RECURSIVE RecordSamples(_)
RecordSamples(hours) ==
    IF hours = {} THEN <<>>
    ELSE LET t == CHOOSE h \in hours : TRUE
         IN  SamplesOf(t) \o RecordSamples(hours \ {t})

\* C24: in every result of get_forecast_analysis the overall statistics are
\* computed over exactly the samples of the per-hour records of the result:
\* the overall sample count is the sum of the sample counts of the records in
\* 'forecasts', also when the variable is cached in several files whose
\* messages have the same valid time.
C24_OverallOverRecordSamples ==
    (fa.op = "get_forecast_analysis" /\ fa.status = "ok") =>
        /\ Len(fa.all_vals) = Len(RecordSamples(DOMAIN fa.forecasts))
        /\ \A key \in {"min", "max", "mean", "sum"} :
              fa.analysis[key]
                  = OverallStatistics(RecordSamples(DOMAIN fa.forecasts))[key]

\* the words of a phrase in their order, without the blanks between them
PhraseWords(text) == SelectSeq(text, LAMBDA token : token[2] # "")

IsConnector(token) == token[1] \in {"and", "or"}

\* C25: the phrase returned by parse_weather_string never begins or ends with
\* a connector word ('and' / 'or') and never has two connectors in a row: an
\* event that contributes no text adds no connector, wherever it stands among
\* the events.
C25_NoDanglingConnector ==
    WeatherDone =>
        LET words == PhraseWords(pf.result.weather_string)
        IN  words # <<>> =>
                /\ ~IsConnector(words[1])
                /\ ~IsConnector(words[Len(words)])
                /\ \A k \in 1..(Len(words) - 1) :
                      ~(IsConnector(words[k]) /\ IsConnector(words[k + 1]))

=============================================================================
